---------------------------- MODULE Spec2Model ----------------------------
(***************************************************************************)
(* IrisFiles: a model of the client-side conversion controllers and       *)
(* engines.                                                                *)
(*                                                                         *)
(*   - the batch controllers (js/ui.js, js/strip-ui.js, js/audio-ui.js,    *)
(*     js/resize-ui.js): fileQueue, activeCount, processQueue, the timers  *)
(*     it arms, and the state of each entry's DOM item;                    *)
(*   - the FFmpeg loaders (js/ffmpeg-shared.js and the private one of      *)
(*     js/vidconv-engine.js) on the landing page;                          *)
(*   - convertAudioFFmpeg calls on the shared FFmpeg instance;             *)
(*   - the canvas engines and their ImageBitmaps;                          *)
(*   - remuxMovToMp4 on the bytes of a file;                               *)
(*   - the PDF merge page and mergePdfs;                                   *)
(*   - detectFormat (js/converter.js) and detect (js/smart-drop.js).       *)
(*                                                                         *)
(* Each part has its own specification; the variables of the other parts   *)
(* keep their initial value in it.                                         *)
(*                                                                         *)
(* JavaScript runs handlers to completion: an action of this model is one  *)
(* event handler, or the part of an async function between two awaits.     *)
(***************************************************************************)
EXTENDS Integers, Sequences, FiniteSets, TLC

VARIABLES
    kind,         \* which batch controller the page runs
    fileQueue,    \* the controller's fileQueue array
    activeCount,  \* the controller's activeCount
    inflight,     \* processQueue invocations suspended at an await, entry still in fileQueue
    orphans,      \* the same, for entries that were removed from fileQueue meanwhile
    timers,       \* pending setTimeout(processQueue, 0) callbacks
    quality,      \* qualitySlider.value (image converter)
    resizeShown,  \* the Resize button is displayed (resize controller)
    last          \* what the last handler did (history, read by the properties only)

VARIABLES
    scriptTag,       \* the <script src=".../ffmpeg.js"> element of the page
    ffmpegInstance,  \* ffmpegInstance of each loader module (0: null)
    loadingPromise,  \* loadingPromise of each loader module (0: null)
    promises,        \* the promises the loaders created
    objects,         \* how many FFmpeg objects were constructed
    loaded,          \* the FFmpeg objects whose load() resolved
    calls            \* the ensureFFmpeg calls of the engines

VARIABLES
    stage,        \* where each convertAudioFFmpeg call stands
    worker,       \* the messages the FFmpeg worker has not answered yet, oldest first
    listeners,    \* the calls whose progressHandler is registered on the instance
    execProgress, \* the last progress the running exec reported (-1: none yet)
    reported,     \* the values each call passed to its onProgress, in order
    inputExt,     \* the extension of each call's input file ("": not started)
    vfs,          \* the worker's virtual files: whose audio each one holds (0: no file)
    result        \* whose audio the blob each call resolved with holds (0: none)

VARIABLES
    bmCall,       \* the running canvas engine call
    bmOpen,       \* ImageBitmaps the running call created and has not closed
    bmLeaked,     \* ImageBitmaps that earlier calls left open
    bmCalls       \* engine calls started so far

VARIABLES
    movInput,     \* the bytes of the file given to remuxMovToMp4
    movPhase,     \* "none", "reading", "resolved" or "rejected"
    movOutput     \* the bytes of the blob remuxMovToMp4 resolved with

VARIABLES
    pdfFiles,     \* the files array of the PDF page
    pdfCount,     \* how many files the page was given so far
    actionBtn,    \* actionBtn.disabled
    runs          \* the runAction invocations that have not returned

VARIABLES
    sniffFile,    \* the file given to the detectors
    fmt,          \* what detectFormat resolved with ("pending" before)
    route         \* what detect resolved with ("pending" before)

VARIABLES
    currentFile,  \* currentFile of the video converter page (id 0: null)
    converting,   \* its converting flag
    vidItem,      \* the file item in the file list, and what a conversion attached to it
    vidActionBtn, \* the Convert button: displayed, disabled
    vidClearBtn,  \* the Clear button is displayed
    probes,       \* the getVideoDuration calls that have not resolved
    conversions,  \* the convertVideo calls that have not settled
    vidEvents,    \* file drops and Convert clicks so far
    passed        \* the files that were passed to convertVideo

VARIABLES
    idb,          \* the 'pending' object store of the irisfiles database: the files at keys 0, 1, ...
    txQueue,      \* the transactions on the store that have not finished, in creation order
    pendCalls,    \* the storeFiles and loadPendingFiles calls
    pendClock     \* counts the starts and returns of these calls

VARIABLES
    gifClip,        \* videoToGif: the frames the video shows at the capture times, and fps
    gifPc,          \* "idle", "encoding" (in the frame loop) or "done" (gif.finish() ran)
    gifI,           \* the loop index i
    prevSamples,    \* the frame whose sample array prevSamples holds, 0 for null
    prevDelay,
    gifWritten,     \* the gif.writeFrame calls so far: the loop index of the frame and its delay
    encodedFrames,
    skippedFrames

VARIABLES
    palmData,     \* palmDocDecompress: the bytes of the record passed last
    palmOut       \* the bytes it returned

VARIABLES
    rtfString,    \* parseRtf: the string passed last
    rtfGroup,     \* where its designated group starts and ends: the positions of the two braces
    rtfText       \* the text returned

batchVars == <<kind, fileQueue, activeCount, inflight, orphans, timers, quality,
               resizeShown, last>>

loaderVars == <<scriptTag, ffmpegInstance, loadingPromise, promises, objects, loaded,
                calls>>

audioVars == <<stage, worker, listeners, execProgress, reported, inputExt, vfs, result>>

bitmapVars == <<bmCall, bmOpen, bmLeaked, bmCalls>>

remuxVars == <<movInput, movPhase, movOutput>>

mergeVars == <<pdfFiles, pdfCount, actionBtn, runs>>

detectVars == <<sniffFile, fmt, route>>

videoVars == <<currentFile, converting, vidItem, vidActionBtn, vidClearBtn, probes, conversions, vidEvents, passed>>

pendingVars == <<idb, txQueue, pendCalls, pendClock>>

gifVars == <<gifClip, gifPc, gifI, prevSamples, prevDelay, gifWritten, encodedFrames, skippedFrames>>

palmVars == <<palmData, palmOut>>

rtfVars == <<rtfString, rtfGroup, rtfText>>

vars == <<batchVars, loaderVars, audioVars, bitmapVars, remuxVars, mergeVars, detectVars,
    videoVars,
    pendingVars,
    gifVars,
    palmVars,
    rtfVars>>

notBatch == <<loaderVars, audioVars, bitmapVars, remuxVars, mergeVars, detectVars,
    videoVars,
    pendingVars,
    gifVars,
    palmVars,
    rtfVars>>
notLoader == <<batchVars, audioVars, bitmapVars, remuxVars, mergeVars, detectVars,
    videoVars,
    pendingVars,
    gifVars,
    palmVars,
    rtfVars>>
notAudio == <<batchVars, loaderVars, bitmapVars, remuxVars, mergeVars, detectVars,
    videoVars,
    pendingVars,
    gifVars,
    palmVars,
    rtfVars>>
notBitmap == <<batchVars, loaderVars, audioVars, remuxVars, mergeVars, detectVars,
    videoVars,
    pendingVars,
    gifVars,
    palmVars,
    rtfVars>>
notRemux == <<batchVars, loaderVars, audioVars, bitmapVars, mergeVars, detectVars,
    videoVars,
    pendingVars,
    gifVars,
    palmVars,
    rtfVars>>
notMerge == <<batchVars, loaderVars, audioVars, bitmapVars, remuxVars, detectVars,
    videoVars,
    pendingVars,
    gifVars,
    palmVars,
    rtfVars>>
notDetect == <<batchVars, loaderVars, audioVars, bitmapVars, remuxVars, mergeVars,
    videoVars,
    pendingVars,
    gifVars,
    palmVars,
    rtfVars>>
notVideo == <<batchVars, loaderVars, audioVars, bitmapVars, remuxVars, mergeVars, detectVars,
    pendingVars,
    gifVars,
    palmVars,
    rtfVars>>
notPending == <<batchVars, loaderVars, audioVars, bitmapVars, remuxVars, mergeVars, detectVars, videoVars,
    gifVars,
    palmVars,
    rtfVars>>
notGif == <<batchVars, loaderVars, audioVars, bitmapVars, remuxVars, mergeVars, detectVars, videoVars, pendingVars,
    palmVars,
    rtfVars>>
notPalm == <<batchVars, loaderVars, audioVars, bitmapVars, remuxVars, mergeVars, detectVars, videoVars, pendingVars, gifVars,
    rtfVars>>
notRtf == <<batchVars, loaderVars, audioVars, bitmapVars, remuxVars, mergeVars, detectVars, videoVars, pendingVars, gifVars, palmVars>>

----------------------------------------------------------------------------
(* Bounds of the model *)

MaxFiles == 3        \* SpecBatch: entries in fileQueue
MaxDrop == 2         \* SpecBatch: files in one drop
MaxTimers == 2       \* pending processQueue timers told apart (more are merged)
MaxCalls == 3        \* SpecLoader: ensureFFmpeg calls
MaxImages == 4       \* SpecBitmap: files given to imagesToGif
MaxEngineCalls == 2  \* SpecBitmap: engine calls, one after the other
MaxPdfs == 3         \* SpecMerge: files on the merge page
MaxAdded == 3        \* SpecMerge: files given to the page in all
MaxRuns == 2         \* SpecMerge: runAction invocations at the same time
MaxVidEvents == 4    \* SpecVideo: file drops and Convert clicks in all
MaxPendCalls == 4    \* SpecPending: storeFiles and loadPendingFiles calls in all
MaxGifFrames == 3    \* SpecGif: frames of a clip
MaxPalmLen == 3      \* SpecPalm: bytes of a record
MaxRtfBody == 2      \* SpecRtf: pieces in the body of the designated group

----------------------------------------------------------------------------
(* Program constants *)

CONCURRENCY == 2
MAX_BATCH_SIZE == 50
MAX_FILE_SIZE == 100 * 1024 * 1024
MAX_MERGE_SIZE == 50 * 1024 * 1024

Kinds == {"image", "strip", "audio", "resize"}

Min(a, b) == IF a < b THEN a ELSE b
Max(a, b) == IF a > b THEN a ELSE b

NoLast == [op |-> "none", n |-> 0, before |-> 0, taken |-> <<>>, msg |-> "", ref |-> 0]

----------------------------------------------------------------------------
(* converter.js *)

\* validateFile(file) throws
ValidateFileThrows(file) == file.size > MAX_FILE_SIZE

\* snapTo(val, snaps, range): the first snap point within 3% of the range
QualitySnaps == <<10, 25, 50, 75, 80, 90, 100>>

Abs(x) == IF x < 0 THEN -x ELSE x

RECURSIVE SnapFrom(_, _, _, _)
SnapFrom(val, snaps, range, i) ==
    IF i > Len(snaps) THEN val
    ELSE IF 100 * Abs(val - snaps[i]) <= range * 3 THEN snaps[i]
    ELSE SnapFrom(val, snaps, range, i + 1)

snapTo(val, snaps, range) == SnapFrom(val, snaps, range, 1)

----------------------------------------------------------------------------
(* The batch controllers *)

\* Array.prototype.slice(0, end) for end >= 0
Slice0(s, end) == SubSeq(s, 1, Min(Len(s), end))

HasQueued(q) == \E i \in 1..Len(q) : q[i].status = "queued"

\* fileQueue.find(f => f.status === 'queued')
FirstQueued(q) == CHOOSE i \in 1..Len(q) :
    /\ q[i].status = "queued"
    /\ \A j \in 1..(i - 1) : q[j].status # "queued"

\* the first await of the processing of one entry
FirstStage(k) == IF k \in {"image", "resize"} THEN "probe" ELSE "engine"

\* faulty variant: the loop test lets one invocation too many through
processQueue_OffByOne(k, st) ==
    IF st.ac <= CONCURRENCY
    THEN IF HasQueued(st.q)
         THEN LET i == FirstQueued(st.q)
                  started == [st EXCEPT !.ac = @ + 1, !.q[i].status = "processing"]
              IN  IF st.q[i].dom = "done"
                  THEN started
                  ELSE [started EXCEPT !.inf = @ \cup
                           {[ref |-> i, stage |-> FirstStage(k), quality |-> 0]}]
         ELSE st
    ELSE IF HasQueued(st.q)
         THEN [st EXCEPT !.tm = Min(@ + 1, MaxTimers)]
         ELSE st

\* processQueue, from the test of its while loop to its first await or to its
\* return.  st is the controller state [q, ac, inf, tm].  updateFileItem(next)
\* writes status.textContent; the item of an entry that was 'done' has no
\* .file-item__status element any more, so the call throws and the invocation
\* ends there, outside its try block.
processQueue(k, st) ==
    IF st.ac < CONCURRENCY
    THEN IF HasQueued(st.q)
         THEN LET i == FirstQueued(st.q)
                  started == [st EXCEPT !.ac = @ + 1, !.q[i].status = "processing"]
              IN  IF st.q[i].dom = "done"
                  THEN started
                  ELSE [started EXCEPT !.inf = @ \cup
                           {[ref |-> i, stage |-> FirstStage(k), quality |-> 0]}]
         ELSE st
    ELSE IF HasQueued(st.q)
         THEN [st EXCEPT !.tm = Min(@ + 1, MaxTimers)]
         ELSE st

NewEntry(file, status, msg, dom) ==
    [file |-> file, status |-> status, outputBlob |-> "null", errorMsg |-> msg,
     dom |-> dom]

\* addFile(file)
addFile(k, st, file) ==
    IF ValidateFileThrows(file)
    THEN [st EXCEPT !.q = Append(@, NewEntry(file, "error", "File too large", "error"))]
    ELSE IF k = "resize"
         THEN [st EXCEPT !.q = Append(@, NewEntry(file, "pending", "", "initial"))]
         ELSE processQueue(k,
                  [st EXCEPT !.q = Append(@, NewEntry(file, "queued", "", "initial"))])

\* for (const file of toAdd) addFile(file): the files in order (folded by
\* halves, each half evaluated before the next starts)
RECURSIVE AddAll(_, _, _)
AddAll(k, st, files) ==
    IF files = <<>> THEN st
    ELSE IF Len(files) = 1 THEN addFile(k, st, files[1])
    ELSE LET h == Len(files) \div 2
             mid == AddAll(k, st, SubSeq(files, 1, h))
         IN  IF mid.ac >= 0
             THEN AddAll(k, mid, SubSeq(files, h + 1, Len(files)))
             ELSE mid

\* faulty variant: the batch size instead of the remaining room
ToAdd_BatchSize(q, files) == Slice0(files, MAX_BATCH_SIZE)

\* the files handleFiles passes to addFile
ToAdd(q, files) == Slice0(files, MAX_BATCH_SIZE - Len(q))

\* handleFiles(files)
handleFiles(k, st, files) ==
    IF MAX_BATCH_SIZE - Len(st.q) <= 0 THEN st
    ELSE AddAll(k, st, ToAdd(st.q, files))

\* updateBatchActions() of the resize controller: the Resize button
Actionable(q) == \E i \in 1..Len(q) : q[i].status \in {"pending", "done"}

CurState == [q |-> fileQueue, ac |-> activeCount, inf |-> inflight, tm |-> timers]

Install(st) ==
    /\ fileQueue' = st.q
    /\ activeCount' = st.ac
    /\ inflight' = st.inf
    /\ timers' = st.tm

\* what the page's controller shows after updateBatchActions()
Shown(k, q, old) == IF k = "resize" THEN Actionable(q) ELSE old


\* a page without a batch controller
BatchIdle ==
    /\ kind = "none"
    /\ fileQueue = <<>>
    /\ activeCount = 0
    /\ inflight = {}
    /\ orphans = 0
    /\ timers = 0
    /\ quality = 90
    /\ resizeShown = FALSE
    /\ last = NoLast

----------------------------------------------------------------------------
(* Events of a batch controller page *)

\* drop / change on the file input: handleFiles(files)
HandleFiles(files) ==
    /\ Install(handleFiles(kind, CurState, files))
    /\ resizeShown' = Shown(kind, fileQueue', resizeShown)
    /\ last' = [NoLast EXCEPT !.op = "handleFiles", !.n = Len(files),
                              !.before = Len(fileQueue), !.taken = files]
    /\ UNCHANGED <<kind, orphans, quality>>
    /\ UNCHANGED notBatch

\* the first await of processFile (ui.js: detectFormat) or of the resize loop
\* body (getImageDimensions, whose failure is caught) resolves
ProbeDone(c) ==
    /\ c \in inflight
    /\ c.stage = "probe"
    /\ inflight' = (inflight \ {c}) \cup
                      {[c EXCEPT !.stage = "engine",
                                 !.quality = IF kind = "image" THEN quality ELSE 0]}
    /\ last' = NoLast
    /\ UNCHANGED <<kind, fileQueue, activeCount, orphans, timers, quality, resizeShown>>
    /\ UNCHANGED notBatch

\* the rest of one pass through the while loop of processQueue after the
\* awaited call settled: activeCount--, updateFileItem, updateBatchActions,
\* and the loop goes round again
Continue(q2) ==
    /\ Install(processQueue(kind,
           [q |-> q2, ac |-> activeCount - 1, inf |-> inflight, tm |-> timers]))
    /\ resizeShown' = Shown(kind, q2, resizeShown)

AfterSettle(c, q2) ==
    /\ Install(processQueue(kind,
           [q |-> q2, ac |-> activeCount - 1, inf |-> inflight \ {c}, tm |-> timers]))
    /\ resizeShown' = Shown(kind, q2, resizeShown)

\* the engine call of an entry resolves with its output blob
Resolve(c) ==
    /\ c \in inflight
    /\ c.stage = "engine"
    /\ AfterSettle(c, [fileQueue EXCEPT
           ![c.ref].status = "done",
           ![c.ref].outputBlob = [src |-> fileQueue[c.ref].file.content, q |-> c.quality],
           ![c.ref].dom = "done"])
    /\ last' = NoLast
    /\ UNCHANGED <<kind, orphans, quality>>
    /\ UNCHANGED notBatch

\* the processing of an entry throws msg: the catch block of processQueue
Caught(c, msg) ==
    /\ AfterSettle(c, [fileQueue EXCEPT
           ![c.ref].status = "error",
           ![c.ref].errorMsg = msg,
           ![c.ref].dom = "error"])
    /\ last' = [NoLast EXCEPT !.op = "reject", !.msg = msg, !.ref = c.ref,
                   !.before = activeCount,
                   !.n = IF HasQueued(fileQueue) THEN FirstQueued(fileQueue) ELSE 0]
    /\ UNCHANGED <<kind, orphans, quality>>
    /\ UNCHANGED notBatch

\* the engine call rejects
Reject(c, msg) ==
    /\ c \in inflight
    /\ c.stage = "engine"
    /\ Caught(c, msg)

\* ui.js processFile: detectFormat found no format, or not one the page accepts
ProbeFail(c) ==
    /\ c \in inflight
    /\ c.stage = "probe"
    /\ kind = "image"
    /\ Caught(c, "Unrecognized image format")

\* the awaited call of an entry that is no longer in fileQueue settles
OrphanSettle ==
    /\ orphans > 0
    /\ orphans' = orphans - 1
    /\ Continue(fileQueue)
    /\ last' = NoLast
    /\ UNCHANGED <<kind, quality>>
    /\ UNCHANGED notBatch

\* a setTimeout(processQueue, 0) callback runs
TimerFires ==
    /\ timers > 0
    /\ Install(processQueue(kind, [CurState EXCEPT !.tm = @ - 1]))
    /\ last' = NoLast
    /\ UNCHANGED <<kind, orphans, quality, resizeShown>>
    /\ UNCHANGED notBatch

\* the references of the suspended invocations after fileQueue.splice(i, 1)
Reindex(inf, i) ==
    {[c EXCEPT !.ref = IF c.ref > i THEN c.ref - 1 ELSE c.ref] : c \in {d \in inf : d.ref # i}}

RemoveAt(q, i) == SubSeq(q, 1, i - 1) \o SubSeq(q, i + 1, Len(q))

\* click on the Remove button of entry i: removeFile(entry.id).  The button
\* exists once updateFileItem has drawn the entry as done or as error.
RemoveFile(i) ==
    /\ i \in 1..Len(fileQueue)
    /\ fileQueue[i].dom \in {"done", "error"}
    /\ fileQueue' = RemoveAt(fileQueue, i)
    /\ inflight' = Reindex(inflight, i)
    /\ orphans' = orphans + Cardinality({c \in inflight : c.ref = i})
    /\ resizeShown' = Shown(kind, fileQueue', resizeShown)
    /\ last' = NoLast
    /\ UNCHANGED <<kind, activeCount, timers, quality>>
    /\ UNCHANGED notBatch

\* click on Clear All: handleClearAll()
ClearAll ==
    /\ fileQueue # <<>>
    /\ fileQueue' = <<>>
    /\ inflight' = {}
    /\ orphans' = orphans + Cardinality(inflight)
    /\ resizeShown' = Shown(kind, fileQueue', resizeShown)
    /\ last' = NoLast
    /\ UNCHANGED <<kind, activeCount, timers, quality>>
    /\ UNCHANGED notBatch

Requeue(q, from) ==
    [i \in 1..Len(q) |->
        IF q[i].status \in from
        THEN [q[i] EXCEPT !.status = "queued", !.outputBlob = "null"]
        ELSE q[i]]

\* input event of the quality slider (ui.js)
QualityInput(v) ==
    /\ kind = "image"
    /\ quality' = snapTo(v, QualitySnaps, 90)
    /\ Install(processQueue(kind, [CurState EXCEPT !.q = Requeue(fileQueue, {"done"})]))
    /\ last' = NoLast
    /\ UNCHANGED <<kind, orphans, resizeShown>>
    /\ UNCHANGED notBatch

\* click on the Resize button (resize-ui.js)
ResizeClick ==
    /\ kind = "resize"
    /\ resizeShown
    /\ Install(processQueue(kind,
           [CurState EXCEPT !.q = Requeue(fileQueue, {"pending", "done", "error"})]))
    /\ last' = NoLast
    /\ UNCHANGED <<kind, orphans, quality, resizeShown>>
    /\ UNCHANGED notBatch

----------------------------------------------------------------------------
(* The FFmpeg loaders.  js/ffmpeg-shared.js and js/vidconv-engine.js each   *)
(* keep their own ffmpegInstance and loadingPromise; both load the same     *)
(* script URL.  The landing page imports both engines.                      *)

Modules == {"ffmpeg-shared", "vidconv-engine"}

Engines == {"convertVideo", "convertAudioFFmpeg"}

\* the ensureFFmpeg an engine calls: convertVideo the one of its own module,
\* convertAudioFFmpeg the one it imports from ffmpeg-shared.js
LoaderOf(engine) ==
    IF engine = "convertVideo" THEN "vidconv-engine" ELSE "ffmpeg-shared"

IdleCall == [engine |-> "", state |-> "idle", promise |-> 0, value |-> 0]

LoaderIdle ==
    /\ scriptTag = "none"
    /\ ffmpegInstance = [m \in Modules |-> 0]
    /\ loadingPromise = [m \in Modules |-> 0]
    /\ promises = <<>>
    /\ objects = 0
    /\ loaded = {}
    /\ calls = [c \in 1..MaxCalls |-> IdleCall]

\* ensureFFmpeg(onStatus) up to its first await.  A new load starts with
\* loadScript(url), which returns at once when the page already holds a script
\* element for the URL and waits for the element's load event otherwise.
EnsureFFmpeg(c, engine) ==
    /\ calls[c].state = "idle"
    /\ LET m == LoaderOf(engine)
       IN  IF ffmpegInstance[m] # 0
           THEN /\ calls' = [calls EXCEPT ![c] = [engine |-> engine, state |-> "resolved",
                                                  promise |-> 0, value |-> ffmpegInstance[m]]]
                /\ UNCHANGED <<scriptTag, loadingPromise, promises>>
           ELSE IF loadingPromise[m] # 0
           THEN /\ calls' = [calls EXCEPT ![c] = [engine |-> engine, state |-> "waiting",
                                                  promise |-> loadingPromise[m], value |-> 0]]
                /\ UNCHANGED <<scriptTag, loadingPromise, promises>>
           ELSE /\ promises' = Append(promises,
                       [mod |-> m,
                        state |-> IF scriptTag = "none" THEN "onload" ELSE "skip",
                        ffmpeg |-> 0, owner |-> c, ownerRan |-> FALSE,
                        error |-> "",
                        retry |-> \E j \in 1..Len(promises) :
                                      promises[j].state = "rejected"])
                /\ loadingPromise' = [loadingPromise EXCEPT ![m] = Len(promises) + 1]
                /\ scriptTag' = IF scriptTag = "none" THEN "loading" ELSE scriptTag
                /\ calls' = [calls EXCEPT ![c] = [engine |-> engine, state |-> "waiting",
                                                  promise |-> Len(promises) + 1, value |-> 0]]
    /\ UNCHANGED <<ffmpegInstance, objects, loaded>>
    /\ UNCHANGED notLoader

\* const ffmpeg = new FFmpeg(), and the load starts on ffmpeg.load(...)
Construct(i) ==
    /\ promises' = [promises EXCEPT ![i].state = "core", ![i].ffmpeg = objects + 1]
    /\ objects' = objects + 1

\* the load event of the script element: window.FFmpegWASM is defined
ScriptLoaded(i) ==
    /\ scriptTag = "loading"
    /\ i \in 1..Len(promises)
    /\ promises[i].state = "onload"
    /\ scriptTag' = "loaded"
    /\ Construct(i)
    /\ UNCHANGED <<ffmpegInstance, loadingPromise, loaded, calls>>
    /\ UNCHANGED notLoader

\* the error event of the script element: loadScript rejects
ScriptError(i) ==
    /\ scriptTag = "loading"
    /\ i \in 1..Len(promises)
    /\ promises[i].state = "onload"
    /\ scriptTag' = "failed"
    /\ promises' = [promises EXCEPT ![i].state = "rejected", ![i].error = "script"]
    /\ UNCHANGED <<ffmpegInstance, loadingPromise, objects, loaded, calls>>
    /\ UNCHANGED notLoader

\* loadScript found the element in the page and returned; the load goes on
\* with window.FFmpegWASM, which is undefined (a TypeError) unless the script
\* has run
ScriptSkipped(i) ==
    /\ i \in 1..Len(promises)
    /\ promises[i].state = "skip"
    /\ IF scriptTag = "loaded"
       THEN Construct(i)
       ELSE /\ promises' = [promises EXCEPT ![i].state = "rejected",
                                            ![i].error = "TypeError"]
            /\ UNCHANGED objects
    /\ UNCHANGED <<scriptTag, ffmpegInstance, loadingPromise, loaded, calls>>
    /\ UNCHANGED notLoader

\* ffmpeg.load(...) resolves: ffmpegInstance = ffmpeg
CoreLoaded(i) ==
    /\ i \in 1..Len(promises)
    /\ promises[i].state = "core"
    /\ promises' = [promises EXCEPT ![i].state = "resolved"]
    /\ ffmpegInstance' = [ffmpegInstance EXCEPT ![promises[i].mod] = promises[i].ffmpeg]
    /\ loaded' = loaded \cup {promises[i].ffmpeg}
    /\ UNCHANGED <<scriptTag, loadingPromise, objects, calls>>
    /\ UNCHANGED notLoader

\* ffmpeg.load(...) rejects
CoreFailed(i) ==
    /\ i \in 1..Len(promises)
    /\ promises[i].state = "core"
    /\ promises' = [promises EXCEPT ![i].state = "rejected", ![i].error = "core"]
    /\ UNCHANGED <<scriptTag, ffmpegInstance, loadingPromise, objects, loaded, calls>>
    /\ UNCHANGED notLoader

\* the promise a call waits for has settled.  The call that created the
\* promise awaits it in a try block and runs first; its catch block sets
\* loadingPromise = null.  The other calls returned the promise itself.
Settled(c) ==
    /\ calls[c].state = "waiting"
    /\ LET i == calls[c].promise
           p == promises[i]
       IN  /\ p.state \in {"resolved", "rejected"}
           /\ p.owner = c \/ p.ownerRan
           /\ calls' = [calls EXCEPT ![c].state = p.state,
                                     ![c].value = IF p.state = "resolved" THEN p.ffmpeg ELSE 0]
           /\ promises' = [promises EXCEPT ![i].ownerRan = TRUE]
           /\ loadingPromise' =
                 IF p.owner = c /\ p.state = "rejected"
                 THEN [loadingPromise EXCEPT ![p.mod] = 0]
                 ELSE loadingPromise
    /\ UNCHANGED <<scriptTag, ffmpegInstance, objects, loaded>>
    /\ UNCHANGED notLoader

----------------------------------------------------------------------------
(* convertAudioFFmpeg (js/audio-engine.js) on the shared FFmpeg instance.   *)
(* The audio batch controller runs up to CONCURRENCY calls at a time.  The  *)
(* instance passes every message to its worker, which answers them in       *)
(* order, and hands a progress event of the running exec to every handler   *)
(* registered with on('progress', ...).                                     *)

AudioCalls == 1..CONCURRENCY

\* the progress ratios an exec reports, in hundredths
ProgressValues == {0, 50, 100}

\* Math.round(progress * 65)
Round65(p) == (p * 65 + 50) \div 100

\* progressHandler({ progress }): the value it passes to onProgress
progressHandler(p) == Min(90, 25 + Round65(p))

\* the extensions of the files dropped on the audio converter
InputExts == {"wav", "mp3"}

\* inputName = `input.${inputExt}`: the virtual file a call writes its input to
inputName(c) == <<"input", inputExt[c]>>

\* outputName = `output.${fmt.ext}`: the target format is the page's
outputName == <<"output", "ogg">>

FileNames == {<<"input", e>> : e \in InputExts} \cup {outputName}

AudioIdle ==
    /\ stage = [c \in AudioCalls |-> "idle"]
    /\ worker = <<>>
    /\ listeners = {}
    /\ execProgress = -1
    /\ reported = [c \in AudioCalls |-> <<>>]
    /\ inputExt = [c \in AudioCalls |-> ""]
    /\ vfs = [n \in FileNames |-> 0]
    /\ result = [c \in AudioCalls |-> 0]

\* onProgress(v) of call c
OnProgress(c, v) == [reported EXCEPT ![c] = Append(@, v)]

\* convertAudioFFmpeg(file, targetFormat, onProgress) up to await ensureFFmpeg,
\* for a file whose name ends in .ext
ConvertAudioFFmpeg(c, ext) ==
    /\ stage[c] = "idle"
    /\ stage' = [stage EXCEPT ![c] = "ensure"]
    /\ reported' = OnProgress(c, 5)
    /\ inputExt' = [inputExt EXCEPT ![c] = ext]
    /\ UNCHANGED <<worker, listeners, execProgress, vfs, result>>
    /\ UNCHANGED notAudio

\* ensureFFmpeg resolved: up to await file.arrayBuffer()
EnsureResolved(c) ==
    /\ stage[c] = "ensure"
    /\ stage' = [stage EXCEPT ![c] = "buffer"]
    /\ reported' = OnProgress(c, 15)
    /\ UNCHANGED <<worker, listeners, execProgress, inputExt, vfs, result>>
    /\ UNCHANGED notAudio

\* ensureFFmpeg rejected
EnsureRejected(c) ==
    /\ stage[c] = "ensure"
    /\ stage' = [stage EXCEPT ![c] = "rejected"]
    /\ UNCHANGED <<worker, listeners, execProgress, reported, inputExt, vfs, result>>
    /\ UNCHANGED notAudio

\* file.arrayBuffer() resolved: ffmpeg.writeFile(inputName, ...) is sent
Buffered(c) ==
    /\ stage[c] = "buffer"
    /\ stage' = [stage EXCEPT ![c] = "write"]
    /\ worker' = Append(worker, [call |-> c, op |-> "writeFile"])
    /\ UNCHANGED <<listeners, execProgress, reported, inputExt, vfs, result>>
    /\ UNCHANGED notAudio

\* the worker answered the writeFile, readFile or deleteFile at the head of
\* its queue, and the call goes on to its next await
Replied(c) ==
    /\ worker # <<>>
    /\ Head(worker).call = c
    /\ Head(worker).op # "exec"
    /\ \/ /\ stage[c] = "write"
          /\ vfs' = [vfs EXCEPT ![inputName(c)] = c]
          /\ reported' = OnProgress(c, 25)
          /\ listeners' = listeners \cup {c}
          /\ worker' = Append(Tail(worker), [call |-> c, op |-> "exec"])
          /\ stage' = [stage EXCEPT ![c] = "exec"]
          /\ UNCHANGED result
       \/ /\ stage[c] = "read"
          /\ IF vfs[outputName] = 0
             THEN /\ worker' = Tail(worker)
                  /\ stage' = [stage EXCEPT ![c] = "rejected"]
                  /\ UNCHANGED result
             ELSE /\ worker' = Append(Tail(worker), [call |-> c, op |-> "deleteFile"])
                  /\ stage' = [stage EXCEPT ![c] = "delete1"]
                  /\ result' = [result EXCEPT ![c] = vfs[outputName]]
          /\ UNCHANGED <<reported, listeners, vfs>>
       \/ /\ stage[c] = "delete1"
          /\ vfs' = [vfs EXCEPT ![inputName(c)] = 0]
          /\ worker' = Append(Tail(worker), [call |-> c, op |-> "deleteFile"])
          /\ stage' = [stage EXCEPT ![c] = "delete2"]
          /\ UNCHANGED <<reported, listeners, result>>
       \/ /\ stage[c] = "delete2"
          /\ vfs' = [vfs EXCEPT ![outputName] = 0]
          /\ reported' = OnProgress(c, 100)
          /\ worker' = Tail(worker)
          /\ stage' = [stage EXCEPT ![c] = "resolved"]
          /\ UNCHANGED <<listeners, result>>
       \/ /\ stage[c] = "faildelete1"
          /\ vfs' = [vfs EXCEPT ![inputName(c)] = 0]
          /\ worker' = Append(Tail(worker), [call |-> c, op |-> "deleteFile"])
          /\ stage' = [stage EXCEPT ![c] = "faildelete2"]
          /\ UNCHANGED <<reported, listeners, result>>
       \/ /\ stage[c] = "faildelete2"
          /\ vfs' = [vfs EXCEPT ![outputName] = 0]
          /\ worker' = Tail(worker)
          /\ stage' = [stage EXCEPT ![c] = "rejected"]
          /\ UNCHANGED <<reported, listeners, result>>
    /\ UNCHANGED <<execProgress, inputExt>>
    /\ UNCHANGED notAudio

\* the exec at the head of the worker's queue reports progress p: every
\* registered progressHandler runs
Progress(p) ==
    /\ worker # <<>>
    /\ Head(worker).op = "exec"
    /\ p > execProgress
    /\ execProgress' = p
    /\ reported' = [c \in AudioCalls |->
                       IF c \in listeners
                       THEN Append(reported[c], progressHandler(p))
                       ELSE reported[c]]
    /\ UNCHANGED <<stage, worker, listeners, inputExt, vfs, result>>
    /\ UNCHANGED notAudio

\* the exec of call c returned exitCode: the finally block, and up to the
\* next await.  ffmpeg -i inputName ... -y outputName exits with 0 only when
\* the input file exists, and then the output file holds its conversion.
Exited(c, exitCode) ==
    /\ worker # <<>>
    /\ Head(worker) = [call |-> c, op |-> "exec"]
    /\ exitCode = 0 => vfs[inputName(c)] # 0
    /\ execProgress' = -1
    /\ listeners' = listeners \ {c}
    /\ IF exitCode # 0
       THEN /\ worker' = Append(Tail(worker), [call |-> c, op |-> "deleteFile"])
            /\ stage' = [stage EXCEPT ![c] = "faildelete1"]
            /\ UNCHANGED <<reported, vfs>>
       ELSE /\ vfs' = [vfs EXCEPT ![outputName] = vfs[inputName(c)]]
            /\ reported' = OnProgress(c, 95)
            /\ worker' = Append(Tail(worker), [call |-> c, op |-> "readFile"])
            /\ stage' = [stage EXCEPT ![c] = "read"]
    /\ UNCHANGED <<inputExt, result>>
    /\ UNCHANGED notAudio

----------------------------------------------------------------------------
(* The canvas engines: convertWithCanvas (js/converter.js), resizeImage     *)
(* (js/resize-engine.js) and imagesToGif (js/images-gif-engine.js), and the *)
(* ImageBitmaps they create.  The browser decides whether a file decodes,   *)
(* whether canvas.getContext returns a context or null, and whether toBlob  *)
(* yields a blob.                                                           *)

NoCall == [fn |-> "none", pc |-> "idle", n |-> 0, i |-> 0]

BitmapIdle ==
    /\ bmCall = NoCall
    /\ bmOpen = 0
    /\ bmLeaked = 0
    /\ bmCalls = 0

HasSettled(call) == call.pc \in {"idle", "resolved", "rejected"}

\* a page calls an engine once the previous call has settled
Begin(call) ==
    /\ HasSettled(bmCall)
    /\ bmCalls < MaxEngineCalls
    /\ bmCalls' = bmCalls + 1
    /\ bmLeaked' = bmLeaked + bmOpen
    /\ bmOpen' = 0
    /\ bmCall' = call
    /\ UNCHANGED notBitmap

\* convertWithCanvas(file, targetMime, quality) up to await createImageBitmap
ConvertWithCanvas ==
    Begin([fn |-> "convertWithCanvas", pc |-> "decode", n |-> 1, i |-> 0])

\* resizeImage(file, opts, onProgress) up to await createImageBitmap
ResizeImage ==
    Begin([fn |-> "resizeImage", pc |-> "decode", n |-> 1, i |-> 0])

\* imagesToGif(files, opts) with n files, up to the first await createImageBitmap
ImagesToGif(n) ==
    Begin([fn |-> "imagesToGif", pc |-> IF n < 2 THEN "rejected" ELSE "load",
           n |-> n, i |-> 0])

\* createImageBitmap rejects in convertWithCanvas or resizeImage
DecodeFailed ==
    /\ bmCall.pc = "decode"
    /\ bmCall' = [bmCall EXCEPT !.pc = "rejected"]
    /\ UNCHANGED <<bmOpen, bmLeaked, bmCalls>>
    /\ UNCHANGED notBitmap

\* convertWithCanvas after createImageBitmap resolved: validateDimensions
\* (closes the bitmap when it throws), getContext, fillStyle / drawImage on
\* the context (a TypeError when it is null), bmp.close(), toBlob
CanvasDecoded(tooLarge, hasCtx) ==
    /\ bmCall.fn = "convertWithCanvas"
    /\ bmCall.pc = "decode"
    /\ IF tooLarge
       THEN bmOpen' = bmOpen /\ bmCall' = [bmCall EXCEPT !.pc = "rejected"]
       ELSE IF ~hasCtx
       THEN bmOpen' = bmOpen + 1 /\ bmCall' = [bmCall EXCEPT !.pc = "rejected"]
       ELSE bmOpen' = bmOpen /\ bmCall' = [bmCall EXCEPT !.pc = "toBlob"]
    /\ UNCHANGED <<bmLeaked, bmCalls>>
    /\ UNCHANGED notBitmap

\* resizeImage after createImageBitmap resolved: getContext, the throw when
\* it is null, drawImage, bmp.close(), toBlob
ResizeDecoded(hasCtx) ==
    /\ bmCall.fn = "resizeImage"
    /\ bmCall.pc = "decode"
    /\ IF ~hasCtx
       THEN bmOpen' = bmOpen + 1 /\ bmCall' = [bmCall EXCEPT !.pc = "rejected"]
       ELSE bmOpen' = bmOpen /\ bmCall' = [bmCall EXCEPT !.pc = "toBlob"]
    /\ UNCHANGED <<bmLeaked, bmCalls>>
    /\ UNCHANGED notBitmap

\* the toBlob callback runs with a blob or with null
ToBlob(hasBlob) ==
    /\ bmCall.pc = "toBlob"
    /\ bmCall' = [bmCall EXCEPT !.pc = IF hasBlob THEN "resolved" ELSE "rejected"]
    /\ UNCHANGED <<bmOpen, bmLeaked, bmCalls>>
    /\ UNCHANGED notBitmap

\* imagesToGif: createImageBitmap(files[i]) resolved.  After the last file:
\* getContext, the palette (clearRect on the context, a TypeError when it is
\* null), and inside the try block frame 0, after which the loop yields.
GifLoaded(hasCtx) ==
    /\ bmCall.fn = "imagesToGif"
    /\ bmCall.pc = "load"
    /\ bmOpen' = bmOpen + 1
    /\ IF bmCall.i + 1 < bmCall.n
       THEN bmCall' = [bmCall EXCEPT !.i = @ + 1]
       ELSE IF ~hasCtx
       THEN bmCall' = [bmCall EXCEPT !.pc = "rejected"]
       ELSE bmCall' = [bmCall EXCEPT !.pc = "yield", !.i = 0]
    /\ UNCHANGED <<bmLeaked, bmCalls>>
    /\ UNCHANGED notBitmap

\* imagesToGif: createImageBitmap(files[i]) rejects
GifLoadFailed ==
    /\ bmCall.fn = "imagesToGif"
    /\ bmCall.pc = "load"
    /\ bmCall' = [bmCall EXCEPT !.pc = "rejected"]
    /\ UNCHANGED <<bmOpen, bmLeaked, bmCalls>>
    /\ UNCHANGED notBitmap

\* imagesToGif: the timer of the yield after frame i fired; the loop encodes
\* up to the next frame whose index is a multiple of 3, or to the end, where
\* the finally block closes every bitmap.  throws: a frame fails to encode.
GifResumed(throws) ==
    /\ bmCall.fn = "imagesToGif"
    /\ bmCall.pc = "yield"
    /\ IF throws
       THEN bmOpen' = 0 /\ bmCall' = [bmCall EXCEPT !.pc = "rejected"]
       ELSE IF bmCall.i + 3 < bmCall.n
       THEN bmOpen' = bmOpen /\ bmCall' = [bmCall EXCEPT !.i = @ + 3]
       ELSE bmOpen' = 0 /\ bmCall' = [bmCall EXCEPT !.pc = "resolved"]
    /\ UNCHANGED <<bmLeaked, bmCalls>>
    /\ UNCHANGED notBitmap

----------------------------------------------------------------------------
(* remuxMovToMp4 (js/remux-engine.js) on the bytes of a file.  A file is a  *)
(* sequence of bytes; offsets count from 0 as in the code.                  *)

MaxBrands == 4       \* SpecRemux: 4-byte words after the box header

W_ftyp == <<102, 116, 121, 112>>
W_moov == <<109, 111, 111, 118>>
W_free == <<102, 114, 101, 101>>
W_qt == <<113, 116, 32, 32>>
W_MSNV == <<77, 83, 78, 86>>
W_mqt == <<109, 113, 116, 32>>
W_isom == <<105, 115, 111, 109>>
W_zero == <<0, 0, 0, 0>>

\* a 32-bit size field holding n < 256
SizeWord(n) == <<0, 0, 0, n>>

\* bytes[offset] of a Uint8Array: undefined past the end, which
\* String.fromCharCode turns into the character 0
ByteAt(bytes, offset) == IF offset < Len(bytes) THEN bytes[offset + 1] ELSE 0

\* view.getUint32(pos): big-endian
getUint32(bytes, pos) ==
    ((bytes[pos + 1] * 256 + bytes[pos + 2]) * 256 + bytes[pos + 3]) * 256 + bytes[pos + 4]

\* chr4(bytes, offset), as the four character codes
chr4(bytes, offset) ==
    <<ByteAt(bytes, offset), ByteAt(bytes, offset + 1),
      ByteAt(bytes, offset + 2), ByteAt(bytes, offset + 3)>>

\* writeStr4(bytes, offset, str): a store past the end of a typed array is
\* ignored
writeStr4(bytes, offset, str) ==
    [i \in 1..Len(bytes) |->
        IF i - 1 \in offset..(offset + 3) THEN str[i - offset] ELSE bytes[i]]

\* the while loop that looks for the ftyp box: the offset of the box, or -1
RECURSIVE FindFtyp(_, _)
FindFtyp(bytes, pos) ==
    IF ~(pos + 8 <= Len(bytes) /\ pos < 4096) THEN -1
    ELSE LET size == getUint32(bytes, pos)
         IN  IF size < 8 \/ size > Len(bytes) - pos THEN -1
             ELSE IF chr4(bytes, pos + 4) = W_ftyp THEN pos
             ELSE FindFtyp(bytes, pos + size)

\* the for loop over the compatible brands: the first 'qt  ' becomes 'isom'
RECURSIVE RewriteCompat(_, _, _)
RewriteCompat(bytes, cp, ftypEnd) ==
    IF cp + 4 <= ftypEnd
    THEN IF chr4(bytes, cp) = W_qt
         THEN writeStr4(bytes, cp, W_isom)
         ELSE RewriteCompat(bytes, cp + 4, ftypEnd)
    ELSE bytes

\* the major brand at pos + 8 becomes 'isom' if it is a QuickTime brand
RewriteMajor(bytes, pos) ==
    IF chr4(bytes, pos + 8) \in {W_qt, W_MSNV, W_mqt}
    THEN writeStr4(bytes, pos + 8, W_isom)
    ELSE bytes

\* remuxMovToMp4(file) after file.arrayBuffer() resolved
remuxMovToMp4(bytes) ==
    LET pos == FindFtyp(bytes, 0)
    IN  IF pos = -1
        THEN [found |-> FALSE, bytes |-> <<>>]
        ELSE [found |-> TRUE,
              bytes |-> RewriteCompat(RewriteMajor(bytes, pos), pos + 16,
                                      pos + getUint32(bytes, pos))]

RemuxIdle ==
    /\ movInput = <<>>
    /\ movPhase = "none"
    /\ movOutput = <<>>

\* remuxMovToMp4(file, onProgress) up to await file.arrayBuffer()
RemuxMovToMp4 ==
    /\ movPhase = "none"
    /\ movPhase' = "reading"
    /\ UNCHANGED <<movInput, movOutput>>
    /\ UNCHANGED notRemux

\* file.arrayBuffer() resolved: the rest of remuxMovToMp4
BufferRead ==
    /\ movPhase = "reading"
    /\ LET r == remuxMovToMp4(movInput)
       IN  /\ movPhase' = IF r.found THEN "resolved" ELSE "rejected"
           /\ movOutput' = r.bytes
    /\ UNCHANGED movInput
    /\ UNCHANGED notRemux

----------------------------------------------------------------------------
(* The PDF page in merge mode (js/pdf-ui.js) and mergePdfs                  *)
(* (js/pdf-engine.js).  runAction passes the page's files array itself to   *)
(* mergePdfs, which reads it at every await.  A file is a record of its size  *)
(* in bytes and of a number that tells the files of the page apart.        *)

\* files.reduce((s, f) => s + f.size, 0)
RECURSIVE TotalSize(_)
TotalSize(fs) == IF fs = <<>> THEN 0 ELSE Head(fs).size + TotalSize(Tail(fs))

NoRun == [pc |-> "none", i |-> 0, merged |-> <<>>]

MergeIdle ==
    /\ pdfFiles = <<>>
    /\ pdfCount = 0
    /\ actionBtn = [disabled |-> TRUE]
    /\ runs = [r \in 1..MaxRuns |-> NoRun]

\* updateControls(): actionBtn.disabled
updateControls(fs) == [disabled |-> Len(fs) < 2]

\* addFiles(fileList_): up to 50 files on the page
RECURSIVE PushFiles(_, _)
PushFiles(fs, dropped) ==
    IF dropped = <<>> \/ Len(fs) >= 50 THEN fs
    ELSE PushFiles(Append(fs, Head(dropped)), Tail(dropped))

\* the dropped files, numbered from the count of files seen so far
Numbered(sizes, count) == [k \in 1..Len(sizes) |-> [id |-> count + k, size |-> sizes[k]]]

\* drop on the drop zone, or change of the file input
AddFiles(dropped) ==
    /\ pdfFiles' = PushFiles(pdfFiles, Numbered(dropped, pdfCount))
    /\ pdfCount' = pdfCount + Len(dropped)
    /\ actionBtn' = updateControls(pdfFiles')
    /\ UNCHANGED runs
    /\ UNCHANGED notMerge

\* click on the Remove button of the file at index i
RemovePdf(i) ==
    /\ i \in 1..Len(pdfFiles)
    /\ pdfFiles' = SubSeq(pdfFiles, 1, i - 1) \o SubSeq(pdfFiles, i + 1, Len(pdfFiles))
    /\ actionBtn' = updateControls(pdfFiles')
    /\ UNCHANGED runs
    /\ UNCHANGED pdfCount
    /\ UNCHANGED notMerge

\* drop of the dragged item from on the item to: the files array follows the
\* DOM order
Reorder(from, to) ==
    /\ from \in 1..Len(pdfFiles)
    /\ to \in 1..Len(pdfFiles)
    /\ from # to
    /\ LET rest == SubSeq(pdfFiles, 1, from - 1) \o SubSeq(pdfFiles, from + 1, Len(pdfFiles))
       IN  pdfFiles' = SubSeq(rest, 1, to - 1) \o <<pdfFiles[from]>> \o SubSeq(rest, to, Len(rest))
    /\ UNCHANGED <<actionBtn, runs>>
    /\ UNCHANGED pdfCount
    /\ UNCHANGED notMerge

\* clearAll()
ClearPdfs ==
    /\ pdfFiles # <<>>
    /\ pdfFiles' = <<>>
    /\ actionBtn' = updateControls(pdfFiles')
    /\ UNCHANGED runs
    /\ UNCHANGED pdfCount
    /\ UNCHANGED notMerge

\* click on the action button: runAction() up to await requireLib('pdfLib')
\* inside mergePdfs(files, ...)
RunAction(r) ==
    /\ ~actionBtn.disabled
    /\ pdfFiles # <<>>
    /\ runs[r].pc \in {"none", "done", "error"}
    /\ actionBtn' = [disabled |-> TRUE]
    /\ runs' = [runs EXCEPT ![r] = [pc |-> "lib", i |-> 0, merged |-> <<>>]]
    /\ UNCHANGED pdfFiles
    /\ UNCHANGED pdfCount
    /\ UNCHANGED notMerge

\* requireLib resolved: the size check of mergePdfs, whose throw runAction
\* catches, and PDFDocument.create()
LibReady(r) ==
    /\ runs[r].pc = "lib"
    /\ IF TotalSize(pdfFiles) > MAX_MERGE_SIZE
       THEN /\ runs' = [runs EXCEPT ![r].pc = "error"]
            /\ actionBtn' = [disabled |-> FALSE]
       ELSE /\ runs' = [runs EXCEPT ![r].pc = "loop"]
            /\ UNCHANGED actionBtn
    /\ UNCHANGED pdfFiles
    /\ UNCHANGED pdfCount
    /\ UNCHANGED notMerge

\* one pass of the for loop of mergePdfs: files[i] is read, loaded and its
\* pages are copied; after the last file, merged.save() starts
LoopStep(r) ==
    /\ runs[r].pc = "loop"
    /\ IF runs[r].i < Len(pdfFiles)
       THEN runs' = [runs EXCEPT ![r].merged = Append(@, pdfFiles[runs[r].i + 1]),
                                 ![r].i = @ + 1]
       ELSE runs' = [runs EXCEPT ![r].pc = "save"]
    /\ UNCHANGED <<pdfFiles, actionBtn>>
    /\ UNCHANGED pdfCount
    /\ UNCHANGED notMerge

\* PDFDocument.load rejects (not a PDF): runAction shows the error
LoadFailed(r) ==
    /\ runs[r].pc = "loop"
    /\ runs[r].i < Len(pdfFiles)
    /\ runs' = [runs EXCEPT ![r].pc = "error"]
    /\ actionBtn' = [disabled |-> FALSE]
    /\ UNCHANGED pdfFiles
    /\ UNCHANGED pdfCount
    /\ UNCHANGED notMerge

\* merged.save() resolved: showSingleResult(blob, 'merged.pdf', ...)
Saved(r) ==
    /\ runs[r].pc = "save"
    /\ runs' = [runs EXCEPT ![r].pc = "done"]
    /\ actionBtn' = [disabled |-> FALSE]
    /\ UNCHANGED pdfFiles
    /\ UNCHANGED pdfCount
    /\ UNCHANGED notMerge

----------------------------------------------------------------------------
(* detectFormat (js/converter.js) and detect (js/smart-drop.js).  A file is *)
(* its bytes, its name (a sequence of characters) and its declared type.    *)

Null == [mime |-> "null", ext |-> ""]
Pending == [mime |-> "pending", ext |-> ""]

Ftyp(brand) == W_ftyp \o brand

B_heic == <<104, 101, 105, 99>>
B_heix == <<104, 101, 105, 120>>
B_hevc == <<104, 101, 118, 99>>
B_mif1 == <<109, 105, 102, 49>>
B_msf1 == <<109, 115, 102, 49>>
B_heif == <<104, 101, 105, 102>>
B_hevx == <<104, 101, 118, 120>>
B_avif == <<97, 118, 105, 102>>
B_avis == <<97, 118, 105, 115>>

HeicOffsets ==
    <<<<4, Ftyp(B_heic)>>, <<4, Ftyp(B_heix)>>, <<4, Ftyp(B_hevc)>>, <<4, Ftyp(B_mif1)>>,
      <<4, Ftyp(B_msf1)>>, <<4, Ftyp(B_heif)>>, <<4, Ftyp(B_hevx)>>>>

AvifOffsets == <<<<4, Ftyp(B_avif)>>, <<4, Ftyp(B_avis)>>>>

Sig(mime, ext, offsets) == [mime |-> mime, ext |-> ext, offsets |-> offsets]

\* converter.js
FORMAT_SIGNATURES ==
    <<Sig("image/heic", "heic", HeicOffsets),
      Sig("image/png", "png", <<<<0, <<137, 80, 78, 71>>>>>>),
      Sig("image/jpeg", "jpg", <<<<0, <<255, 216, 255>>>>>>),
      Sig("image/webp", "webp", <<<<8, <<87, 69, 66, 80>>>>>>),
      Sig("image/gif", "gif", <<<<0, <<71, 73, 70>>>>>>),
      Sig("image/bmp", "bmp", <<<<0, <<66, 77>>>>>>),
      Sig("image/avif", "avif", AvifOffsets)>>

\* smart-drop.js
SIGS ==
    <<Sig("image/heic", "heic", HeicOffsets),
      Sig("image/avif", "avif", AvifOffsets),
      Sig("image/png", "png", <<<<0, <<137, 80, 78, 71>>>>>>),
      Sig("image/jpeg", "jpg", <<<<0, <<255, 216, 255>>>>>>),
      Sig("image/webp", "webp", <<<<8, <<87, 69, 66, 80>>>>>>),
      Sig("image/gif", "gif", <<<<0, <<71, 73, 70>>>>>>),
      Sig("image/bmp", "bmp", <<<<0, <<66, 77>>>>>>),
      Sig("image/tiff", "tiff", <<<<0, <<73, 73, 42, 0>>>>, <<0, <<77, 77, 0, 42>>>>>>),
      Sig("image/x-icon", "ico", <<<<0, <<0, 0, 1, 0>>>>>>),
      Sig("image/svg+xml", "svg", <<>>),
      Sig("application/pdf", "pdf", <<<<0, <<37, 80, 68, 70>>>>>>),
      Sig("video/mp4", "mp4", <<<<4, W_ftyp>>>>),
      Sig("video/webm", "webm", <<<<0, <<26, 69, 223, 163>>>>>>),
      Sig("audio/wav", "wav", <<<<8, <<87, 65, 86, 69>>>>>>),
      Sig("audio/ogg", "ogg", <<<<0, <<79, 103, 103, 83>>>>>>),
      Sig("audio/flac", "flac", <<<<0, <<102, 76, 97, 67>>>>>>),
      Sig("audio/mpeg", "mp3", <<<<0, <<73, 68, 51>>>>, <<0, <<255, 251>>>>,
                                 <<0, <<255, 243>>>>, <<0, <<255, 242>>>>>>),
      Sig("font/ttf", "ttf", <<<<0, <<0, 1, 0, 0>>>>>>),
      Sig("font/otf", "otf", <<<<0, <<79, 84, 84, 79>>>>>>),
      Sig("font/woff", "woff", <<<<0, <<119, 79, 70, 70>>>>>>)>>

\* the keys of ROUTES (smart-drop.js)
ROUTES ==
    {"image/heic", "image/png", "image/jpeg", "image/webp", "image/gif", "image/bmp",
     "image/avif", "image/tiff", "image/x-icon", "image/svg+xml", "application/pdf",
     "video/mp4", "video/webm", "video/quicktime", "video/x-msvideo", "video/x-matroska",
     "image/gif-video", "audio/mpeg", "audio/wav", "audio/ogg", "audio/flac", "audio/mp4",
     "audio/aac", "application/epub+zip", "application/rtf",
     "application/vnd.openxmlformats-officedocument.wordprocessingml.document",
     "application/x-mobipocket-ebook", "font/ttf", "font/otf", "font/woff",
     "application/zip"}

\* faulty variant: only the first 8 bytes are read
Slice16_Short(bytes) == SubSeq(bytes, 1, Min(Len(bytes), 8))

\* file.slice(0, 16)
Slice16(bytes) == SubSeq(bytes, 1, Min(Len(bytes), 16))

\* buf.length >= offset + sig.length && sig.every((b, i) => buf[offset + i] === b)
SigMatches(buf, offset, sig) ==
    /\ Len(buf) >= offset + Len(sig)
    /\ \A i \in 1..Len(sig) : buf[offset + i] = sig[i]

\* the two nested for loops over a signature table, from entry f, offset s
RECURSIVE Scan(_, _, _, _)
Scan(buf, table, f, s) ==
    IF f > Len(table) THEN Null
    ELSE IF s > Len(table[f].offsets) THEN Scan(buf, table, f + 1, 1)
    ELSE IF SigMatches(buf, table[f].offsets[s][1], table[f].offsets[s][2])
         THEN [mime |-> table[f].mime, ext |-> table[f].ext]
         ELSE Scan(buf, table, f, s + 1)

\* detectFormat(file)
detectFormat(file) == Scan(Slice16(file.bytes), FORMAT_SIGNATURES, 1, 1)

UpperCase == <<"A", "B", "C", "D", "E", "F", "G", "H", "I", "J", "K", "L", "M",
               "N", "O", "P", "Q", "R", "S", "T", "U", "V", "W", "X", "Y", "Z">>
LowerCase == <<"a", "b", "c", "d", "e", "f", "g", "h", "i", "j", "k", "l", "m",
               "n", "o", "p", "q", "r", "s", "t", "u", "v", "w", "x", "y", "z">>

\* String.prototype.toLowerCase on a sequence of characters
toLowerCase(s) ==
    [i \in 1..Len(s) |->
        IF \E k \in 1..26 : UpperCase[k] = s[i]
        THEN LowerCase[CHOOSE k \in 1..26 : UpperCase[k] = s[i]]
        ELSE s[i]]

\* name.split('.').pop(): what follows the last dot, the whole name without one
RECURSIVE LastPart(_)
LastPart(name) ==
    IF \E i \in 1..Len(name) : name[i] = "."
    THEN LastPart(Tail(name))
    ELSE name

\* SIGS.find(s => s.mime === mime)
FindSig(mime) ==
    LET k == CHOOSE k \in 1..Len(SIGS) : SIGS[k].mime = mime
    IN  [mime |-> SIGS[k].mime, ext |-> SIGS[k].ext]

\* the fallbacks of detect on the extension and the declared type, in order
Fallback(ext, type) ==
    IF ext = <<"s", "v", "g">> \/ type = "image/svg+xml" THEN FindSig("image/svg+xml")
    ELSE IF ext = <<"i", "c", "o">> THEN FindSig("image/x-icon")
    ELSE IF ext = <<"t", "i", "f">> \/ ext = <<"t", "i", "f", "f">> THEN FindSig("image/tiff")
    ELSE IF ext = <<"a", "v", "i", "f">> THEN FindSig("image/avif")
    ELSE IF ext = <<"m", "p", "3">> THEN FindSig("audio/mpeg")
    ELSE IF ext = <<"w", "a", "v">> THEN FindSig("audio/wav")
    ELSE IF ext = <<"o", "g", "g">> THEN FindSig("audio/ogg")
    ELSE IF ext = <<"f", "l", "a", "c">> THEN FindSig("audio/flac")
    ELSE IF ext = <<"m", "4", "a">> THEN [mime |-> "audio/mp4", ext |-> "m4a"]
    ELSE IF ext = <<"a", "a", "c">> THEN [mime |-> "audio/aac", ext |-> "aac"]
    ELSE IF ext = <<"e", "p", "u", "b">> THEN [mime |-> "application/epub+zip", ext |-> "epub"]
    ELSE IF ext = <<"d", "o", "c", "x">>
         THEN [mime |-> "application/vnd.openxmlformats-officedocument.wordprocessingml.document",
               ext |-> "docx"]
    ELSE IF ext = <<"r", "t", "f">> THEN [mime |-> "application/rtf", ext |-> "rtf"]
    ELSE IF ext = <<"m", "o", "b", "i">> \/ ext = <<"p", "r", "c">>
         THEN [mime |-> "application/x-mobipocket-ebook", ext |-> "mobi"]
    ELSE IF ext = <<"t", "t", "f">> THEN FindSig("font/ttf")
    ELSE IF ext = <<"o", "t", "f">> THEN FindSig("font/otf")
    ELSE IF ext = <<"w", "o", "f", "f">> THEN FindSig("font/woff")
    ELSE IF ext = <<"m", "o", "v">> THEN [mime |-> "video/quicktime", ext |-> "mov"]
    ELSE IF ext = <<"a", "v", "i">> THEN [mime |-> "video/x-msvideo", ext |-> "avi"]
    ELSE IF ext = <<"m", "k", "v">> THEN [mime |-> "video/x-matroska", ext |-> "mkv"]
    ELSE IF ext = <<"z", "i", "p">> THEN [mime |-> "application/zip", ext |-> "zip"]
    ELSE Null

\* detect(file)
detect(file) ==
    LET hit == Scan(Slice16(file.bytes), SIGS, 1, 1)
    IN  IF hit # Null THEN hit
        ELSE Fallback(toLowerCase(LastPart(file.name)), file.type)

NoFile == [bytes |-> <<>>, name |-> <<>>, type |-> ""]

DetectIdle ==
    /\ sniffFile = NoFile
    /\ fmt = Pending
    /\ route = Pending

\* processFile of the image converter: await detectFormat(entry.file)
DetectFormat ==
    /\ fmt = Pending
    /\ fmt' = detectFormat(sniffFile)
    /\ UNCHANGED <<sniffFile, route>>
    /\ UNCHANGED notDetect

\* a drop on the landing page: await detect(file)
Detect ==
    /\ route = Pending
    /\ route' = detect(sniffFile)
    /\ UNCHANGED <<sniffFile, fmt>>
    /\ UNCHANGED notDetect

----------------------------------------------------------------------------
(* The video converter page (js/vidconv-ui.js): one file at a time, whose   *)
(* duration is probed with a <video> element, and convertVideo on the click *)
(* of the Convert button.  A file is its number, its size in bytes and its  *)
(* duration in seconds.                                                     *)

MAX_VIDEO_SIZE == 100 * 1024 * 1024
MAX_DURATION == 600

\* currentFile = null
NoVideo == [id |-> 0, size |-> 0, duration |-> 0]

\* fileList.innerHTML = ''
NoItem == [file |-> 0, actions |-> "none", blobOf |-> 0, metaOf |-> 0, errorOf |-> 0]

VideoIdle ==
    /\ currentFile = NoVideo
    /\ converting = FALSE
    /\ vidItem = NoItem
    /\ vidActionBtn = [shown |-> FALSE, disabled |-> FALSE]
    /\ vidClearBtn = FALSE
    /\ probes = {}
    /\ conversions = {}
    /\ vidEvents = 0
    /\ passed = {}

\* showFileItem(file, duration): the list holds the item of this file
showFileItem(file) == [NoItem EXCEPT !.file = file.id, !.actions = "status"]

\* the actions element of the item, if there is one, shows an error text that
\* comes from the conversion of file number of (0: from the validation)
ErrorShown(item, of) ==
    IF item.file = 0 THEN item
    ELSE [item EXCEPT !.actions = "error", !.blobOf = 0, !.errorOf = of]

\* handleFile(files) up to await getVideoDuration(file), when converting is
\* false: resetState(), currentFile = file, the size validation
HandleFile(file) ==
    /\ ~converting
    /\ vidEvents < MaxVidEvents
    /\ vidEvents' = vidEvents + 1
    /\ currentFile' = file
    /\ converting' = FALSE
    /\ vidActionBtn' = [shown |-> FALSE, disabled |-> FALSE]
    /\ IF file.size > MAX_VIDEO_SIZE
       THEN /\ vidItem' = ErrorShown(showFileItem(file), 0)
            /\ vidClearBtn' = TRUE
            /\ UNCHANGED probes
       ELSE /\ vidItem' = NoItem
            /\ vidClearBtn' = FALSE
            /\ probes' = probes \cup {[file |-> file, n |-> vidEvents + 1]}
    /\ UNCHANGED <<conversions, passed>>
    /\ UNCHANGED notVideo

\* getVideoDuration resolved with duration (0: onerror, or not finite): the
\* rest of handleFile
ProbeSettled(p, duration) ==
    /\ p \in probes
    /\ probes' = probes \ {p}
    /\ IF duration > 0 /\ duration > MAX_DURATION
       THEN /\ vidItem' = ErrorShown(showFileItem(p.file), 0)
            /\ vidActionBtn' = [vidActionBtn EXCEPT !.shown = FALSE]
       ELSE /\ vidItem' = showFileItem(p.file)
            /\ vidActionBtn' = [shown |-> TRUE, disabled |-> FALSE]
    /\ vidClearBtn' = TRUE
    /\ UNCHANGED <<currentFile, converting, conversions, vidEvents, passed>>
    /\ UNCHANGED notVideo

\* click on the Convert button: startConversion() up to await convertFn(...)
StartConversion ==
    /\ vidActionBtn.shown
    /\ ~vidActionBtn.disabled
    /\ currentFile # NoVideo
    /\ ~converting
    /\ vidEvents < MaxVidEvents
    /\ vidEvents' = vidEvents + 1
    /\ converting' = TRUE
    /\ vidActionBtn' = [vidActionBtn EXCEPT !.disabled = TRUE]
    /\ conversions' = conversions \cup {[file |-> currentFile, n |-> vidEvents + 1]}
    /\ passed' = passed \cup {currentFile}
    /\ UNCHANGED <<currentFile, vidItem, vidClearBtn, probes>>
    /\ UNCHANGED notVideo

\* convertVideo resolved with a blob: the rest of the try block, and the catch
\* block when currentFile.size or currentFile.name throws a TypeError
ConversionResolved(c) ==
    /\ c \in conversions
    /\ c.file.size <= MAX_VIDEO_SIZE
    /\ conversions' = conversions \ {c}
    /\ converting' = FALSE
    /\ IF currentFile = NoVideo
       THEN /\ vidItem' = ErrorShown(vidItem, c.file.id)
            /\ vidActionBtn' = [shown |-> vidActionBtn.shown /\ vidItem.file # 0,
                                disabled |-> FALSE]
       ELSE /\ vidItem' =
                  IF vidItem.file = 0 THEN vidItem
                  ELSE [vidItem EXCEPT !.actions = "download", !.blobOf = c.file.id,
                                       !.metaOf = currentFile.id, !.errorOf = 0]
            /\ vidActionBtn' = [vidActionBtn EXCEPT !.shown = FALSE]
    /\ UNCHANGED <<currentFile, vidClearBtn, probes, vidEvents, passed>>
    /\ UNCHANGED notVideo

\* convertVideo rejected: the catch block of startConversion
ConversionRejected(c) ==
    /\ c \in conversions
    /\ conversions' = conversions \ {c}
    /\ converting' = FALSE
    /\ vidItem' = ErrorShown(vidItem, c.file.id)
    /\ vidActionBtn' = [vidActionBtn EXCEPT !.disabled = FALSE]
    /\ UNCHANGED <<currentFile, vidClearBtn, probes, vidEvents, passed>>
    /\ UNCHANGED notVideo

\* click on the Clear button: handleClearAll(), resetState()
HandleClearAll ==
    /\ vidClearBtn
    /\ currentFile' = NoVideo
    /\ converting' = FALSE
    /\ vidItem' = NoItem
    /\ vidActionBtn' = [shown |-> FALSE, disabled |-> FALSE]
    /\ vidClearBtn' = FALSE
    /\ UNCHANGED <<probes, conversions, vidEvents, passed>>
    /\ UNCHANGED notVideo

----------------------------------------------------------------------------
(* Pending files (js/smart-drop.js): storeFiles on the landing page and     *)
(* loadPendingFiles on the converter pages, on the IndexedDB object store   *)
(* 'pending' that the pages of the site share.  The database opens and its  *)
(* requests succeed.  A read-write transaction starts when every            *)
(* transaction created before it has finished, a read-only one when every   *)
(* read-write transaction created before it has finished.  A result of <<>> *)
(* stands for null: no call returns an empty array.                         *)

NoPendCall == [op |-> "idle", pc |-> "idle", files |-> <<>>, start |-> 0, end |-> 0]

PendingIdle ==
    /\ idb = <<>>
    /\ txQueue = <<>>
    /\ pendCalls = [c \in 1..MaxPendCalls |-> NoPendCall]
    /\ pendClock = 0

\* the transaction at position i of the queue can run
Runnable(i) ==
    IF txQueue[i].mode = "readwrite" THEN i = 1
    ELSE \A j \in 1..(i - 1) : txQueue[j].mode = "readonly"

\* the queue without the transaction at position i
Finished(i) == SubSeq(txQueue, 1, i - 1) \o SubSeq(txQueue, i + 1, Len(txQueue))

\* storeFiles(files) up to await openDB()
StoreFiles(c, files) ==
    /\ pendCalls[c].op = "idle"
    /\ pendCalls' = [pendCalls EXCEPT ![c] = [op |-> "store", pc |-> "open", files |-> files,
                                              start |-> pendClock + 1, end |-> 0]]
    /\ pendClock' = pendClock + 1
    /\ UNCHANGED <<idb, txQueue>>
    /\ UNCHANGED notPending

\* loadPendingFiles() up to await openDB()
LoadPendingFiles(c) ==
    /\ pendCalls[c].op = "idle"
    /\ pendCalls' = [pendCalls EXCEPT ![c] = [op |-> "load", pc |-> "open", files |-> <<>>,
                                              start |-> pendClock + 1, end |-> 0]]
    /\ pendClock' = pendClock + 1
    /\ UNCHANGED <<idb, txQueue>>
    /\ UNCHANGED notPending

\* openDB() resolved: storeFiles creates its read-write transaction and issues
\* clear() and the put() requests; loadPendingFiles creates its read-only
\* transaction and issues getAllKeys()
Opened(c) ==
    /\ pendCalls[c].pc = "open"
    /\ txQueue' = Append(txQueue,
          [call |-> c,
           mode |-> IF pendCalls[c].op = "store" THEN "readwrite" ELSE "readonly"])
    /\ pendCalls' = [pendCalls EXCEPT ![c].pc = "tx"]
    /\ UNCHANGED <<idb, pendClock>>
    /\ UNCHANGED notPending

\* the transaction of a storeFiles call ran and completed: tx.oncomplete
StoreComplete(c) ==
    /\ pendCalls[c].op = "store"
    /\ pendCalls[c].pc = "tx"
    /\ \E i \in 1..Len(txQueue) :
          /\ txQueue[i].call = c
          /\ Runnable(i)
          /\ txQueue' = Finished(i)
    /\ idb' = pendCalls[c].files
    /\ pendCalls' = [pendCalls EXCEPT ![c].pc = "done", ![c].end = pendClock + 1]
    /\ pendClock' = pendClock + 1
    /\ UNCHANGED notPending

\* the read-only transaction of a loadPendingFiles call ran: getAllKeys() and
\* one get() for each key, in key order.  With no key the call returns null;
\* otherwise it creates a second, read-write transaction, issues clear() on
\* it and returns the files without waiting for it.
FilesRead(c) ==
    /\ pendCalls[c].op = "load"
    /\ pendCalls[c].pc = "tx"
    /\ \E i \in 1..Len(txQueue) :
          /\ txQueue[i].call = c
          /\ Runnable(i)
          /\ txQueue' = IF idb = <<>> THEN Finished(i)
                        ELSE Append(Finished(i), [call |-> 0, mode |-> "readwrite"])
    /\ pendCalls' = [pendCalls EXCEPT ![c].pc = "done", ![c].files = idb,
                                      ![c].end = pendClock + 1]
    /\ pendClock' = pendClock + 1
    /\ UNCHANGED idb
    /\ UNCHANGED notPending

\* the clear() of a second transaction of loadPendingFiles ran
Cleared ==
    /\ txQueue # <<>>
    /\ txQueue[1].call = 0
    /\ idb' = <<>>
    /\ txQueue' = Tail(txQueue)
    /\ UNCHANGED <<pendCalls, pendClock>>
    /\ UNCHANGED notPending

----------------------------------------------------------------------------
(* Video to GIF (js/gif-engine.js): the frame loop of videoToGif.  The      *)
(* video is the sequence of frames that seekTo and drawImage capture at the *)
(* times start + i / fps; a frame is known by the array sampleGridPixels    *)
(* takes from it.  t > end does not occur for i < totalFrames.              *)

SAMPLE_GRID == 16
DEDUP_THRESHOLD == <<2, 100>>    \* 0.02

SamplePoints == 1..(SAMPLE_GRID * SAMPLE_GRID)

\* the frames of the clips: the r, g, b of each sample point.  Frame 1 is
\* black, 2 differs from it by 30 at every point, 5 by 31 at every point,
\* 3 and 4 differ from black at 5 and at 6 of the 256 points.
sampleGridPixels(frame) ==
    [p \in SamplePoints |->
        CASE frame = 1 -> <<0, 0, 0>>
          [] frame = 2 -> <<10, 10, 10>>
          [] frame = 3 -> IF p <= 5 THEN <<100, 0, 0>> ELSE <<0, 0, 0>>
          [] frame = 4 -> IF p <= 6 THEN <<100, 0, 0>> ELSE <<0, 0, 0>>
          [] OTHER     -> <<11, 10, 10>>]

AbsDiff(x, y) == IF x < y THEN y - x ELSE x - y

\* pixelDiffBelow(a, b, threshold): (diff / total) < threshold
pixelDiffBelow(a, b, threshold) ==
    LET total == Cardinality(DOMAIN a)
        diff == Cardinality({p \in DOMAIN a :
                    AbsDiff(a[p][1], b[p][1]) + AbsDiff(a[p][2], b[p][2])
                        + AbsDiff(a[p][3], b[p][3]) > 30})
    IN  diff * threshold[2] < threshold[1] * total

\* Math.round(1000 / fps)
frameDelay(fps) == (2000 + fps) \div (2 * fps)

NoClip == [frames |-> <<>>, fps |-> 0]

GifIdle ==
    /\ gifClip = NoClip
    /\ gifPc = "idle"
    /\ gifI = 0
    /\ prevSamples = 0
    /\ prevDelay = 0
    /\ gifWritten = <<>>
    /\ encodedFrames = 0
    /\ skippedFrames = 0

\* videoToGif up to the frame loop: lines 23-95
VideoToGif(frames, fps) ==
    /\ gifPc = "idle"
    /\ gifClip' = [frames |-> frames, fps |-> fps]
    /\ gifPc' = "encoding"
    /\ gifI' = 0
    /\ prevSamples' = 0
    /\ prevDelay' = frameDelay(fps)
    /\ gifWritten' = <<>>
    /\ encodedFrames' = 0
    /\ skippedFrames' = 0
    /\ UNCHANGED notGif

\* one iteration of the frame loop, after await seekTo(video, t)
FrameCaptured ==
    /\ gifPc = "encoding"
    /\ gifI < Len(gifClip.frames)      \* totalFrames
    /\ LET frame == gifClip.frames[gifI + 1]
           samples == sampleGridPixels(frame)
       IN  IF prevSamples # 0
                /\ pixelDiffBelow(sampleGridPixels(prevSamples), samples, DEDUP_THRESHOLD)
           THEN /\ skippedFrames' = skippedFrames + 1
                /\ prevDelay' = prevDelay + frameDelay(gifClip.fps)
                /\ UNCHANGED <<prevSamples, gifWritten, encodedFrames>>
           ELSE /\ prevSamples' = frame
                /\ gifWritten' = Append(gifWritten, [i |-> gifI, delay |-> prevDelay])
                /\ prevDelay' = frameDelay(gifClip.fps)
                /\ encodedFrames' = encodedFrames + 1
                /\ UNCHANGED skippedFrames
    /\ gifI' = gifI + 1
    /\ UNCHANGED <<gifClip, gifPc>>
    /\ UNCHANGED notGif

\* the loop ended: gif.finish() and the blob
GifFinished ==
    /\ gifPc = "encoding"
    /\ gifI = Len(gifClip.frames)
    /\ gifPc' = "done"
    /\ UNCHANGED <<gifClip, gifI, prevSamples, prevDelay, gifWritten, encodedFrames, skippedFrames>>
    /\ UNCHANGED notGif

----------------------------------------------------------------------------
(* MOBI records (the e-book converter): palmDocDecompress.  Bytes are       *)
(* 0..255; data[i] of the code is data[i + 1] here.                         *)

PalmIdle ==
    /\ palmData = <<>>
    /\ palmOut = <<>>

\* byte ^ 0x80
Xor80(byte) == IF byte >= 128 THEN byte - 128 ELSE byte + 128

\* the loop of the back-reference: for (j = 0; j < len; j++) out.push(...)
RECURSIVE CopyBack(_, _, _, _, _)
CopyBack(out, pos, dist, j, len) ==
    IF j >= len THEN out
    ELSE LET idx == pos - dist + j
         IN  CopyBack(Append(out, IF idx >= 0 /\ idx < Len(out) THEN out[idx + 1] ELSE 0),
                      pos, dist, j + 1, len)

\* the while loop of palmDocDecompress from index i with the output so far
RECURSIVE PalmLoop(_, _, _)
PalmLoop(data, i, out) ==
    IF i >= Len(data) THEN out
    ELSE LET byte == data[i + 1]
             i1 == i + 1
         IN  IF byte = 0 THEN PalmLoop(data, i1, Append(out, 0))
             ELSE IF byte >= 1 /\ byte <= 8 THEN
                 LET n == IF byte < Len(data) - i1 THEN byte ELSE Len(data) - i1
                 IN  PalmLoop(data, i1 + n, out \o SubSeq(data, i1 + 1, i1 + n))
             ELSE IF byte >= 128 THEN
                 IF i1 >= Len(data) THEN out
                 ELSE LET next == data[i1 + 1]
                          dist == ((byte * 256 + next) \div 8) % 2048
                          len == (next % 8) + 3
                      IN  PalmLoop(data, i1 + 1, CopyBack(out, Len(out), dist, 0, len))
             ELSE IF byte >= 9 /\ byte <= 127 THEN PalmLoop(data, i1, Append(out, byte))
             ELSE PalmLoop(data, i1, out \o <<32, Xor80(byte)>>)

palmDocDecompress(data) == PalmLoop(data, 0, <<>>)

\* a record is decompressed
PalmDocDecompress(data) ==
    /\ palmData' = data
    /\ palmOut' = palmDocDecompress(data)
    /\ UNCHANGED notPalm

----------------------------------------------------------------------------
(* RTF (the e-book converter): parseRtf.  A string is the sequence of its   *)
(* UTF-16 code units; rtfString[i] of the code is s[i + 1] here.            *)

RtfIdle ==
    /\ rtfString = <<>>
    /\ rtfGroup = <<0, 0>>
    /\ rtfText = <<>>

skipGroups ==
    {
     <<102, 111, 110, 116, 116, 98, 108>>,                    \* fonttbl
     <<99, 111, 108, 111, 114, 116, 98, 108>>,                \* colortbl
     <<115, 116, 121, 108, 101, 115, 104, 101, 101, 116>>,    \* stylesheet
     <<105, 110, 102, 111>>,                                  \* info
     <<104, 101, 97, 100, 101, 114>>,                         \* header
     <<102, 111, 111, 116, 101, 114>>,                        \* footer
     <<104, 101, 97, 100, 101, 114, 108>>,                    \* headerl
     <<104, 101, 97, 100, 101, 114, 114>>,                    \* headerr
     <<104, 101, 97, 100, 101, 114, 102>>,                    \* headerf
     <<102, 111, 111, 116, 101, 114, 108>>,                   \* footerl
     <<102, 111, 111, 116, 101, 114, 114>>,                   \* footerr
     <<102, 111, 111, 116, 101, 114, 102>>,                   \* footerf
     <<112, 105, 99, 116>>,                                   \* pict
     <<111, 98, 106, 101, 99, 116>>,                          \* object
     <<102, 108, 100, 105, 110, 115, 116>>,                   \* fldinst
     <<42>>                                                   \* *
    }

IsLetter(ch) == (ch >= 65 /\ ch <= 90) \/ (ch >= 97 /\ ch <= 122)    \* /[a-zA-Z]/
IsDigit(ch) == ch >= 48 /\ ch <= 57                                  \* /[0-9]/

\* the position after the run of characters from j that satisfy the test:
\* letters and '*' after the brace of a group, letters in a control word
RECURSIVE WordEnd(_, _, _)
WordEnd(s, j, star) ==
    IF j < Len(s) /\ (IsLetter(s[j + 1]) \/ (star /\ s[j + 1] = 42))
    THEN WordEnd(s, j + 1, star) ELSE j

RECURSIVE DigitsEnd(_, _)
DigitsEnd(s, j) == IF j < Len(s) /\ IsDigit(s[j + 1]) THEN DigitsEnd(s, j + 1) ELSE j

\* s.substring(a, b) for 0 <= a <= b
Substring(s, a, b) ==
    SubSeq(s, (IF a < Len(s) THEN a ELSE Len(s)) + 1, IF b < Len(s) THEN b ELSE Len(s))

HexDigit(ch) ==
    IF IsDigit(ch) THEN ch - 48
    ELSE IF ch >= 97 /\ ch <= 102 THEN ch - 87
    ELSE IF ch >= 65 /\ ch <= 70 THEN ch - 55
    ELSE -1

\* the white space that parseInt and trim() strip, of the code units below 256
IsSpace(ch) == ch \in {9, 10, 11, 12, 13, 32, 160}

\* parseInt(hex, 16) of a string of at most two characters
ParseHex(hex) ==
    LET h1 == IF hex # <<>> /\ IsSpace(Head(hex)) THEN Tail(hex) ELSE hex
        h2 == IF h1 # <<>> /\ IsSpace(Head(h1)) THEN Tail(h1) ELSE h1
        neg == h2 # <<>> /\ Head(h2) = 45
        h3 == IF h2 # <<>> /\ Head(h2) \in {43, 45} THEN Tail(h2) ELSE h2
        mag == IF h3 = <<>> \/ HexDigit(h3[1]) < 0 THEN -1
               ELSE IF Len(h3) = 1 \/ HexDigit(h3[2]) < 0 THEN HexDigit(h3[1])
               ELSE HexDigit(h3[1]) * 16 + HexDigit(h3[2])
    IN  [nan |-> mag < 0, code |-> IF neg THEN -mag ELSE mag]

\* the value of a run of decimal digits
RECURSIVE Decimal(_)
Decimal(digits) ==
    IF digits = <<>> THEN 0
    ELSE Decimal(SubSeq(digits, 1, Len(digits) - 1)) * 10 + (digits[Len(digits)] - 48)

\* parseInt(param, 10) of an optional '-' and digits
ParseParam(param) ==
    LET neg == param # <<>> /\ Head(param) = 45
        digits == IF neg THEN Tail(param) ELSE param
    IN  [nan |-> digits = <<>>, code |-> IF neg THEN -Decimal(digits) ELSE Decimal(digits)]

\* String.fromCharCode(code)
fromCharCode(code) == <<code % 65536>>

\* what a control word other than u adds to the text
WordText(word) ==
    IF word = <<112, 97, 114>> \/ word = <<108, 105, 110, 101>> THEN <<10>>    \* par, line
    ELSE IF word = <<116, 97, 98>> THEN <<9>>    \* tab
    ELSE IF word = <<108, 113, 117, 111, 116, 101>> THEN <<8216>>    \* lquote
    ELSE IF word = <<114, 113, 117, 111, 116, 101>> THEN <<8217>>    \* rquote
    ELSE IF word = <<108, 100, 98, 108, 113, 117, 111, 116, 101>> THEN <<8220>>    \* ldblquote
    ELSE IF word = <<114, 100, 98, 108, 113, 117, 111, 116, 101>> THEN <<8221>>    \* rdblquote
    ELSE IF word = <<98, 117, 108, 108, 101, 116>> THEN <<8226>>    \* bullet
    ELSE IF word = <<101, 110, 100, 97, 115, 104>> THEN <<8211>>    \* endash
    ELSE IF word = <<101, 109, 100, 97, 115, 104>> THEN <<8212>>    \* emdash
    ELSE <<>>

\* the while loop of parseRtf
RECURSIVE RtfLoop(_, _, _, _, _)
RtfLoop(s, i, depth, skipGroup, text) ==
    IF i >= Len(s) THEN text
    ELSE LET ch == s[i + 1] IN
    IF ch = 123 THEN                                          \* '{'
        LET d == depth + 1
            i1 == i + 1
            word == IF i1 < Len(s) /\ s[i1 + 1] = 92
                    THEN SubSeq(s, i1 + 2, WordEnd(s, i1 + 1, TRUE)) ELSE <<>>
            skips == i1 < Len(s) /\ s[i1 + 1] = 92 /\ word \in skipGroups /\ skipGroup = 0
        IN  RtfLoop(s, i1, d, IF skips THEN d ELSE skipGroup, text)
    ELSE IF ch = 125 THEN                                     \* '}'
        RtfLoop(s, i + 1, depth - 1,
                IF skipGroup > 0 /\ depth = skipGroup THEN 0 ELSE skipGroup, text)
    ELSE IF skipGroup > 0 THEN RtfLoop(s, i + 1, depth, skipGroup, text)
    ELSE IF ch = 92 THEN                                      \* '\'
        LET i1 == i + 1 IN
        IF i1 >= Len(s) THEN text
        ELSE LET c == s[i1 + 1] IN
        IF c = 92 \/ c = 123 \/ c = 125 THEN RtfLoop(s, i1 + 1, depth, skipGroup, text \o <<c>>)
        ELSE IF c = 126 THEN RtfLoop(s, i1 + 1, depth, skipGroup, text \o <<160>>)     \* \~
        ELSE IF c = 45 THEN RtfLoop(s, i1 + 1, depth, skipGroup, text \o <<173>>)      \* \-
        ELSE IF c = 95 THEN RtfLoop(s, i1 + 1, depth, skipGroup, text \o <<8209>>)     \* \_
        ELSE IF c = 39 THEN                                                            \* \'xx
            LET code == ParseHex(Substring(s, i1 + 1, i1 + 3))
            IN  RtfLoop(s, i1 + 3, depth, skipGroup,
                        IF code.nan THEN text ELSE text \o fromCharCode(code.code))
        ELSE
            LET i2 == WordEnd(s, i1, FALSE)
                word == SubSeq(s, i1 + 1, i2)
                i3 == IF i2 < Len(s) /\ s[i2 + 1] = 45 THEN i2 + 1 ELSE i2
                i4 == IF i2 < Len(s) /\ (s[i2 + 1] = 45 \/ IsDigit(s[i2 + 1]))
                      THEN DigitsEnd(s, i3) ELSE i2
                param == SubSeq(s, i2 + 1, i4)
                i5 == IF i4 < Len(s) /\ s[i4 + 1] = 32 THEN i4 + 1 ELSE i4
            IN  IF word = <<117>> THEN                                                 \* u
                    LET code == ParseParam(param)
                        i6 == IF i5 < Len(s) /\ s[i5 + 1] \notin {92, 123, 125}
                              THEN i5 + 1 ELSE i5
                    IN  RtfLoop(s, i6, depth, skipGroup,
                                IF code.nan THEN text ELSE text \o fromCharCode(code.code))
                ELSE RtfLoop(s, i5, depth, skipGroup, text \o WordText(word))
    ELSE IF ch = 13 \/ ch = 10 THEN RtfLoop(s, i + 1, depth, skipGroup, text)
    ELSE RtfLoop(s, i + 1, depth, skipGroup, text \o <<ch>>)

\* text.replace(/\n{3,}/g, '\n\n')
RECURSIVE CollapseLines(_)
CollapseLines(text) ==
    IF Len(text) >= 3 /\ text[1] = 10 /\ text[2] = 10 /\ text[3] = 10
    THEN CollapseLines(Tail(text))
    ELSE IF text = <<>> THEN <<>>
    ELSE <<Head(text)>> \o CollapseLines(Tail(text))

\* text.trim()
RECURSIVE Trim(_)
Trim(text) ==
    IF text = <<>> THEN <<>>
    ELSE IF IsSpace(Head(text)) THEN Trim(Tail(text))
    ELSE IF IsSpace(text[Len(text)]) THEN Trim(SubSeq(text, 1, Len(text) - 1))
    ELSE text

parseRtf(rtfStr) == Trim(CollapseLines(RtfLoop(rtfStr, 0, 0, 0, <<>>)))

\* rtfToText or rtfToPdf parses the text of a file, once; group is where
\* the designated group of the file starts and ends
ParseRtf(rtfStr, group) ==
    /\ rtfString = <<>>
    /\ rtfString' = rtfStr
    /\ rtfGroup' = group
    /\ rtfText' = parseRtf(rtfStr)
    /\ UNCHANGED notRtf

----------------------------------------------------------------------------
(* SpecBatch: every batch controller, a few files *)

FileA == [content |-> "a", size |-> 1024]
FileB == [content |-> "b", size |-> MAX_FILE_SIZE]
FileBig == [content |-> "c", size |-> MAX_FILE_SIZE + 1]

BatchFiles == {FileA, FileBig}

BatchDrops == UNION {[1..n -> BatchFiles] : n \in 1..MaxDrop}

SliderValues == {52, 80}

ErrMsgs == {"Conversion failed"}

InitBatch ==
    /\ RtfIdle
    /\ PalmIdle
    /\ GifIdle
    /\ PendingIdle
    /\ VideoIdle
    /\ kind \in Kinds
    /\ fileQueue = <<>>
    /\ activeCount = 0
    /\ inflight = {}
    /\ orphans = 0
    /\ timers = 0
    /\ quality = 90
    /\ resizeShown = FALSE
    /\ last = NoLast
    /\ LoaderIdle
    /\ AudioIdle
    /\ BitmapIdle
    /\ RemuxIdle
    /\ MergeIdle
    /\ DetectIdle

NextBatch ==
    \/ \E files \in BatchDrops :
          /\ Len(fileQueue) + Len(files) <= MaxFiles
          /\ HandleFiles(files)
    \/ \E c \in inflight : ProbeDone(c)
    \/ \E c \in inflight : ProbeFail(c)
    \/ \E c \in inflight : Resolve(c)
    \/ \E c \in inflight, m \in ErrMsgs : Reject(c, m)
    \/ OrphanSettle
    \/ TimerFires
    \/ \E i \in 1..Len(fileQueue) : RemoveFile(i)
    \/ ClearAll
    \/ \E v \in SliderValues : QualityInput(v)
    \/ ResizeClick

SpecBatch == InitBatch /\ [][NextBatch]_vars

----------------------------------------------------------------------------
(* SpecLimit: one batch controller up to its batch limit *)

Copies(f, n) == [i \in 1..n |-> f]

\* the drops: one file, a few files, and more files than a batch holds, the
\* last of them told apart from the others
LimitDrops == {Copies(FileA, 1), Copies(FileA, 3),
               Copies(FileA, MAX_BATCH_SIZE) \o <<FileB>>}

InitLimit ==
    /\ RtfIdle
    /\ PalmIdle
    /\ GifIdle
    /\ PendingIdle
    /\ VideoIdle
    /\ kind = "strip"
    /\ fileQueue = <<>>
    /\ activeCount = 0
    /\ inflight = {}
    /\ orphans = 0
    /\ timers = 0
    /\ quality = 90
    /\ resizeShown = FALSE
    /\ last = NoLast
    /\ LoaderIdle
    /\ AudioIdle
    /\ BitmapIdle
    /\ RemuxIdle
    /\ MergeIdle
    /\ DetectIdle

NextLimit ==
    \/ \E files \in LimitDrops : HandleFiles(files)
    \/ \E c \in inflight : Resolve(c)
    \/ OrphanSettle
    \/ TimerFires
    \/ \E i \in 1..Len(fileQueue) : RemoveFile(i)
    \/ ClearAll

SpecLimit == InitLimit /\ [][NextLimit]_vars

----------------------------------------------------------------------------
(* SpecLoader: the engines of the landing page call ensureFFmpeg *)

InitLoader ==
    /\ RtfIdle
    /\ PalmIdle
    /\ GifIdle
    /\ PendingIdle
    /\ VideoIdle
    /\ LoaderIdle
    /\ BatchIdle
    /\ AudioIdle
    /\ BitmapIdle
    /\ RemuxIdle
    /\ MergeIdle
    /\ DetectIdle

NextLoader ==
    \/ \E c \in 1..MaxCalls, e \in Engines : EnsureFFmpeg(c, e)
    \/ \E i \in 1..Len(promises) : ScriptLoaded(i)
    \/ \E i \in 1..Len(promises) : ScriptError(i)
    \/ \E i \in 1..Len(promises) : ScriptSkipped(i)
    \/ \E i \in 1..Len(promises) : CoreLoaded(i)
    \/ \E i \in 1..Len(promises) : CoreFailed(i)
    \/ \E c \in 1..MaxCalls : Settled(c)

SpecLoader == InitLoader /\ [][NextLoader]_vars

----------------------------------------------------------------------------
(* SpecAudio: the audio batch converter with an FFmpeg-backed target *)

InitAudio ==
    /\ RtfIdle
    /\ PalmIdle
    /\ GifIdle
    /\ PendingIdle
    /\ VideoIdle
    /\ AudioIdle
    /\ BatchIdle
    /\ LoaderIdle
    /\ BitmapIdle
    /\ RemuxIdle
    /\ MergeIdle
    /\ DetectIdle

NextAudio ==
    \/ \E c \in AudioCalls, ext \in InputExts : ConvertAudioFFmpeg(c, ext)
    \/ \E c \in AudioCalls : EnsureResolved(c)
    \/ \E c \in AudioCalls : EnsureRejected(c)
    \/ \E c \in AudioCalls : Buffered(c)
    \/ \E c \in AudioCalls : Replied(c)
    \/ \E p \in ProgressValues : Progress(p)
    \/ \E c \in AudioCalls, exitCode \in {0, 1} : Exited(c, exitCode)

SpecAudio == InitAudio /\ [][NextAudio]_vars

----------------------------------------------------------------------------
(* SpecBitmap: calls of the canvas engines, one after the other *)

InitBitmap ==
    /\ RtfIdle
    /\ PalmIdle
    /\ GifIdle
    /\ PendingIdle
    /\ VideoIdle
    /\ BitmapIdle
    /\ BatchIdle
    /\ LoaderIdle
    /\ AudioIdle
    /\ RemuxIdle
    /\ MergeIdle
    /\ DetectIdle

NextBitmap ==
    \/ ConvertWithCanvas
    \/ ResizeImage
    \/ \E n \in 1..MaxImages : ImagesToGif(n)
    \/ DecodeFailed
    \/ \E tooLarge, hasCtx \in BOOLEAN : CanvasDecoded(tooLarge, hasCtx)
    \/ \E hasCtx \in BOOLEAN : ResizeDecoded(hasCtx)
    \/ \E hasBlob \in BOOLEAN : ToBlob(hasBlob)
    \/ \E hasCtx \in BOOLEAN : GifLoaded(hasCtx)
    \/ GifLoadFailed
    \/ \E throws \in BOOLEAN : GifResumed(throws)

SpecBitmap == InitBitmap /\ [][NextBitmap]_vars

----------------------------------------------------------------------------
(* SpecRemux: remuxMovToMp4 on files made of 4-byte words *)

RECURSIVE Flatten(_)
Flatten(words) ==
    IF words = <<>> THEN <<>> ELSE Head(words) \o Flatten(Tail(words))

BrandWords == {W_qt, W_MSNV, W_isom, W_zero}

\* nothing, or an 8-byte box before the box under test
MovPrefixes == {<<>>, SizeWord(8) \o W_free}

MovSizes == {SizeWord(8), SizeWord(12), SizeWord(16), SizeWord(20), SizeWord(24)}

MovTypes == {W_ftyp, W_moov}

MovTails == UNION {[1..n -> BrandWords] : n \in 0..MaxBrands}

\* the file without its last k bytes
Cut(bytes, k) == SubSeq(bytes, 1, Len(bytes) - k)

MovInputs ==
    {Cut(pre \o size \o type \o Flatten(tail), k) :
        pre \in MovPrefixes, size \in MovSizes, type \in MovTypes,
        tail \in MovTails, k \in {0, 2}}

InitRemux ==
    /\ RtfIdle
    /\ PalmIdle
    /\ GifIdle
    /\ PendingIdle
    /\ VideoIdle
    /\ movInput \in MovInputs
    /\ movPhase = "none"
    /\ movOutput = <<>>
    /\ BatchIdle
    /\ LoaderIdle
    /\ AudioIdle
    /\ BitmapIdle
    /\ MergeIdle
    /\ DetectIdle

NextRemux ==
    \/ RemuxMovToMp4
    \/ BufferRead

SpecRemux == InitRemux /\ [][NextRemux]_vars

----------------------------------------------------------------------------
(* SpecMerge: the merge page with a few pdfFiles of 20 MB and 30 MB *)

PdfSizes == {20 * 1024 * 1024, 30 * 1024 * 1024}

PdfDrops == UNION {[1..n -> PdfSizes] : n \in 1..2}

InitMerge ==
    /\ RtfIdle
    /\ PalmIdle
    /\ GifIdle
    /\ PendingIdle
    /\ VideoIdle
    /\ MergeIdle
    /\ BatchIdle
    /\ LoaderIdle
    /\ AudioIdle
    /\ BitmapIdle
    /\ RemuxIdle
    /\ DetectIdle

NextMerge ==
    \/ \E dropped \in PdfDrops :
          /\ Len(pdfFiles) + Len(dropped) <= MaxPdfs
          /\ pdfCount + Len(dropped) <= MaxAdded
          /\ AddFiles(dropped)
    \/ \E i \in 1..Len(pdfFiles) : RemovePdf(i)
    \/ \E from, to \in 1..Len(pdfFiles) : Reorder(from, to)
    \/ ClearPdfs
    \/ \E r \in 1..MaxRuns : RunAction(r)
    \/ \E r \in 1..MaxRuns : LibReady(r)
    \/ \E r \in 1..MaxRuns : LoopStep(r)
    \/ \E r \in 1..MaxRuns : LoadFailed(r)
    \/ \E r \in 1..MaxRuns : Saved(r)

SpecMerge == InitMerge /\ [][NextMerge]_vars

----------------------------------------------------------------------------
(* SpecDetect: the two detectors on files made of a few 4-byte words *)

\* bytes 0..3
SniffWord0 ==
    {<<137, 80, 78, 71>>, <<255, 216, 255, 224>>, <<71, 73, 70, 56>>, <<66, 77, 54, 0>>,
     <<82, 73, 70, 70>>, SizeWord(24), <<123, 92, 114, 116>>, <<80, 75, 3, 4>>,
     <<60, 115, 118, 103>>}

\* bytes 4..7
SniffWord1 == {W_ftyp, W_zero}

\* bytes 8..11
SniffWord2 ==
    {B_heic, B_heix, B_hevc, B_mif1, B_msf1, B_heif, B_hevx, B_avif, B_avis,
     <<87, 69, 66, 80>>, <<87, 65, 86, 69>>, W_qt, W_isom}

\* the length of the file: shorter than a signature, exactly one, longer than
\* the 16 bytes that are read
SniffLengths == {2, 3, 7, 11, 12, 16, 20}

SniffNames ==
    {<<>>, <<"a", ".", "p", "n", "g">>, <<"a", ".", "b", ".", "R", "T", "F">>,
     <<"s", "v", "g">>}

SniffTypes == {"", "image/png"}

SniffFiles ==
    {[bytes |-> SubSeq(w0 \o w1 \o w2 \o W_zero \o B_heic, 1, n), name |-> name,
      type |-> type] :
        w0 \in SniffWord0, w1 \in SniffWord1, w2 \in SniffWord2, n \in SniffLengths,
        name \in SniffNames, type \in SniffTypes}

InitDetect ==
    /\ RtfIdle
    /\ PalmIdle
    /\ GifIdle
    /\ PendingIdle
    /\ VideoIdle
    /\ sniffFile \in SniffFiles
    /\ fmt = Pending
    /\ route = Pending
    /\ BatchIdle
    /\ LoaderIdle
    /\ AudioIdle
    /\ BitmapIdle
    /\ RemuxIdle
    /\ MergeIdle

NextDetect ==
    \/ DetectFormat
    \/ Detect

SpecDetect == InitDetect /\ [][NextDetect]_vars

----------------------------------------------------------------------------
(* SpecVideo: the video converter page with a short video, a video of 15   *)
(* minutes and a file over the size limit                                   *)

VideoFiles ==
    { [id |-> 1, size |-> 10 * 1024 * 1024, duration |-> 60],
      [id |-> 2, size |-> 10 * 1024 * 1024, duration |-> 900],
      [id |-> 3, size |-> MAX_VIDEO_SIZE + 1, duration |-> 60] }

InitVideo ==
    /\ RtfIdle
    /\ PalmIdle
    /\ GifIdle
    /\ PendingIdle
    /\ VideoIdle
    /\ BatchIdle
    /\ LoaderIdle
    /\ AudioIdle
    /\ BitmapIdle
    /\ RemuxIdle
    /\ MergeIdle
    /\ DetectIdle

NextVideo ==
    \/ \E file \in VideoFiles : HandleFile(file)
    \/ \E p \in probes : \E duration \in {p.file.duration, 0} : ProbeSettled(p, duration)
    \/ StartConversion
    \/ \E c \in conversions : ConversionResolved(c)
    \/ \E c \in conversions : ConversionRejected(c)
    \/ HandleClearAll

SpecVideo == InitVideo /\ [][NextVideo]_vars

----------------------------------------------------------------------------
(* SpecPending: a few storeFiles and loadPendingFiles calls of the pages of *)
(* the site that are open, each storing one or two files of its own        *)

PendingBatch(c, n) == [k \in 1..n |-> [store |-> c, k |-> k]]

InitPending ==
    /\ RtfIdle
    /\ PalmIdle
    /\ GifIdle
    /\ PendingIdle
    /\ BatchIdle
    /\ LoaderIdle
    /\ AudioIdle
    /\ BitmapIdle
    /\ RemuxIdle
    /\ MergeIdle
    /\ DetectIdle
    /\ VideoIdle

NextPending ==
    \/ \E c \in 1..MaxPendCalls, n \in 1..2 : StoreFiles(c, PendingBatch(c, n))
    \/ \E c \in 1..MaxPendCalls : LoadPendingFiles(c)
    \/ \E c \in 1..MaxPendCalls : Opened(c)
    \/ \E c \in 1..MaxPendCalls : StoreComplete(c)
    \/ \E c \in 1..MaxPendCalls : FilesRead(c)
    \/ Cleared

SpecPending == InitPending /\ [][NextPending]_vars

----------------------------------------------------------------------------
(* SpecGif: one videoToGif call on a clip of up to MaxGifFrames frames *)

GifFrames == 1..5
GifFps == {8, 10, 12}     \* DEFAULT_FPS by device memory
GifClips == UNION {[1..n -> GifFrames] : n \in 1..MaxGifFrames}

InitGif ==
    /\ RtfIdle
    /\ PalmIdle
    /\ GifIdle
    /\ PendingIdle
    /\ BatchIdle
    /\ LoaderIdle
    /\ AudioIdle
    /\ BitmapIdle
    /\ RemuxIdle
    /\ MergeIdle
    /\ DetectIdle
    /\ VideoIdle

NextGif ==
    \/ \E frames \in GifClips, fps \in GifFps : VideoToGif(frames, fps)
    \/ FrameCaptured
    \/ GifFinished

SpecGif == InitGif /\ [][NextGif]_vars

----------------------------------------------------------------------------
(* SpecPalm: records of up to MaxPalmLen bytes, with a byte of every kind   *)
(* the decoder tells apart                                                  *)

PalmBytes == {0, 2, 65, 97, 128, 193, 255}
PalmRecords == UNION {[1..n -> PalmBytes] : n \in 0..MaxPalmLen}

InitPalm ==
    /\ RtfIdle
    /\ PalmIdle
    /\ GifIdle
    /\ PendingIdle
    /\ BatchIdle
    /\ LoaderIdle
    /\ AudioIdle
    /\ BitmapIdle
    /\ RemuxIdle
    /\ MergeIdle
    /\ DetectIdle
    /\ VideoIdle

NextPalm ==
    \E data \in PalmRecords : PalmDocDecompress(data)

SpecPalm == InitPalm /\ [][NextPalm]_vars

----------------------------------------------------------------------------
(* SpecRtf: documents {\rtf1 pre {\keyword body} post} with each keyword of *)
(* skipGroups, and bodies of up to MaxRtfBody pieces: text, a nested group, *)
(* an escaped brace or backslash, a hex escape                              *)

RtfPres == {<<>>, <<97, 32>>}                                     \* "", "a "
RtfPosts == {<<>>, <<99>>, <<92, 112, 97, 114, 32, 99>>}       \* "", "c", "\par c"
RtfBodyPieces ==
    {<<120>>,                         \* x
     <<123, 120, 125>>,               \* {x}
     <<92, 125>>,                     \* \}
     <<92, 123>>,                     \* \{
     <<92, 92>>,                      \* \\
     <<92, 39, 55, 100>>}             \* \'7d
RtfBodies == UNION {[1..n -> RtfBodyPieces] : n \in 0..MaxRtfBody}

RtfHead == <<123, 92, 114, 116, 102, 49, 32>>    \* {\rtf1 and a space

\* the document and the positions of the braces of its designated group
RtfDoc(pre, word, body, post) ==
    RtfHead \o pre \o <<123, 92>> \o word \o <<32>> \o Flatten(body) \o <<125>> \o post \o <<125>>

RtfGroupOf(pre, word, body) ==
    <<Len(RtfHead) + Len(pre) + 1,
      Len(RtfHead) + Len(pre) + 2 + Len(word) + 1 + Len(Flatten(body)) + 1>>

InitRtf ==
    /\ RtfIdle
    /\ PalmIdle
    /\ GifIdle
    /\ PendingIdle
    /\ BatchIdle
    /\ LoaderIdle
    /\ AudioIdle
    /\ BitmapIdle
    /\ RemuxIdle
    /\ MergeIdle
    /\ DetectIdle
    /\ VideoIdle

NextRtf ==
    \E pre \in RtfPres, word \in skipGroups, body \in RtfBodies, post \in RtfPosts :
        ParseRtf(RtfDoc(pre, word, body, post), RtfGroupOf(pre, word, body))

SpecRtf == InitRtf /\ [][NextRtf]_vars

----------------------------------------------------------------------------
(* Properties of the batch controllers *)

\* C1: fileQueue never holds more than MAX_BATCH_SIZE entries, and one
\* handleFiles call appends exactly the first (MAX_BATCH_SIZE - length before)
\* files of its input, in order.
C1_BatchLimit ==
    /\ Len(fileQueue) <= MAX_BATCH_SIZE
    /\ last.op = "handleFiles" =>
          LET k == Min(last.n, MAX_BATCH_SIZE - last.before)
          IN  /\ Len(fileQueue) = last.before + k
              /\ \A j \in 1..k : fileQueue[last.before + j].file = last.taken[j]

\* a handleFiles call that had to cut its input filled the queue to the limit
C1_Witness ==
    /\ last.op = "handleFiles"
    /\ last.before > 0
    /\ last.before < MAX_BATCH_SIZE
    /\ last.before + last.n > MAX_BATCH_SIZE
    /\ Len(fileQueue) = MAX_BATCH_SIZE

\* C4: when the processing of an entry throws, the entry is in status 'error'
\* with the thrown message, activeCount went down by exactly one for it, and
\* the entry that was waiting first in the queue is processed: it took the
\* free slot and an invocation of processQueue is working on it.
C4_CaughtPerFile ==
    last.op = "reject" =>
        /\ last.ref \in 1..Len(fileQueue)
        /\ fileQueue[last.ref].status = "error"
        /\ fileQueue[last.ref].errorMsg = last.msg
        /\ IF last.n = 0
           THEN activeCount = last.before - 1
           ELSE /\ fileQueue[last.n].status = "processing"
                /\ activeCount = last.before
                /\ \E c \in inflight : c.ref = last.n

\* the engine calls in flight
InFlight == Cardinality(inflight) + orphans

\* C10: at most CONCURRENCY entries are processed at the same time.
C10_AtMostTwo == InFlight <= CONCURRENCY

\* two calls in flight, one of them for an entry that Clear All removed, and
\* an entry waiting
C10_Witness ==
    /\ InFlight = CONCURRENCY
    /\ orphans > 0
    /\ HasQueued(fileQueue)

\* C12: whenever no entry is queued and no engine call is in flight,
\* activeCount is 0 and no entry is left in status 'processing' (such an entry
\* would never reach 'done' or 'error').
C12_IdleMeansDrained ==
    (~HasQueued(fileQueue) /\ InFlight = 0) =>
        /\ activeCount = 0
        /\ \A i \in 1..Len(fileQueue) : fileQueue[i].status # "processing"

\* C15: an entry whose file is larger than MAX_FILE_SIZE is in status 'error':
\* it is never queued or processing, and no engine call runs for it.
C15_OversizeStaysError ==
    /\ \A i \in 1..Len(fileQueue) :
          fileQueue[i].file.size > MAX_FILE_SIZE => fileQueue[i].status = "error"
    /\ \A c \in inflight : fileQueue[c.ref].file.size <= MAX_FILE_SIZE

\* C18: in the image converter, when no entry is queued and no engine call is
\* in flight, every entry in status 'done' holds an output produced with the
\* quality the slider shows.
C18_DoneHasSliderQuality ==
    (kind = "image" /\ ~HasQueued(fileQueue) /\ InFlight = 0) =>
        \A i \in 1..Len(fileQueue) :
            fileQueue[i].status = "done" => fileQueue[i].outputBlob.q = quality

----------------------------------------------------------------------------
(* Properties of the FFmpeg loaders *)

\* C2: as long as no load has failed, at most one FFmpeg object has been
\* constructed and loaded, and every ensureFFmpeg call that resolved received
\* that one instance.
C2_SingleInstance ==
    (\A i \in 1..Len(promises) : promises[i].state # "rejected") =>
        /\ objects <= 1
        /\ Cardinality(loaded) <= 1
        /\ \A c, d \in 1..MaxCalls :
              calls[c].state = "resolved" /\ calls[d].state = "resolved"
                  => calls[c].value = calls[d].value

\* C17: an ensureFFmpeg call that starts a load attempt after an earlier
\* attempt was rejected is itself rejected only when a download of its own
\* attempt fails, the script's or the core's.
C17_RetryLoads ==
    \A c \in 1..MaxCalls :
        (calls[c].state = "rejected" /\ promises[calls[c].promise].retry) =>
            promises[calls[c].promise].error \in {"script", "core"}

----------------------------------------------------------------------------
(* Properties of the engines' progress reports *)

NonDecreasing(s) == \A i \in 1..(Len(s) - 1) : s[i] <= s[i + 1]

\* C3: the values a convertAudioFFmpeg call passes to onProgress never go
\* down and stay within 0..100, and a call that resolved reported 100 last.
C3_LinearProgress ==
    \A c \in AudioCalls :
        /\ NonDecreasing(reported[c])
        /\ \A i \in 1..Len(reported[c]) : reported[c][i] \in 0..100
        /\ stage[c] = "resolved" => reported[c][Len(reported[c])] = 100

\* C11: a convertAudioFFmpeg call that resolved, whose entry the audio batch
\* converter then marks 'done', resolved with the conversion of its own input
\* file.
C11_OwnConversion ==
    \A c \in AudioCalls : stage[c] = "resolved" => result[c] = c

----------------------------------------------------------------------------
(* Properties of the canvas engines *)

\* C5: when a call of convertWithCanvas, resizeImage or imagesToGif has
\* resolved or rejected, every ImageBitmap it created has been closed.
C5_BitmapsClosed ==
    bmCall.pc \in {"resolved", "rejected"} => bmOpen = 0

----------------------------------------------------------------------------
(* Properties of remuxMovToMp4 *)

\* the offset of the ftyp box of the input and the offset of its end
FtypPos == FindFtyp(movInput, 0)
FtypEnd == FtypPos + getUint32(movInput, FtypPos)

\* the offsets of the 4-byte fields of the ftyp box that hold a brand: the
\* major brand, and the compatible brands after the minor version
BrandFields ==
    {cp \in FtypPos..(FtypEnd - 4) :
        /\ cp >= FtypPos + 8
        /\ cp # FtypPos + 12
        /\ (cp - FtypPos) % 4 = 0}

\* the offsets of the bytes in which the output differs from the input
Changed == {j \in 0..(Len(movInput) - 1) : movOutput[j + 1] # movInput[j + 1]}

\* C6: the output of remuxMovToMp4 has the length of the input and differs
\* from it only inside brand fields of the ftyp box, which then hold 'isom':
\* the major brand and at most one compatible brand.
C6_OnlyFtypBrands ==
    movPhase = "resolved" =>
        /\ Len(movOutput) = Len(movInput)
        /\ \A j \in Changed :
              \E cp \in BrandFields :
                  /\ j \in cp..(cp + 3)
                  /\ chr4(movOutput, cp) = W_isom
        /\ Cardinality({cp \in BrandFields :
                           /\ cp > FtypPos + 8
                           /\ \E j \in Changed : j \in cp..(cp + 3)}) <= 1

----------------------------------------------------------------------------
(* Properties of the merge page *)

\* the files a run has read so far
Inputs(r) == {runs[r].merged[k] : k \in 1..Len(runs[r].merged)}

RECURSIVE SizeOf(_)
SizeOf(fs) ==
    IF fs = {} THEN 0
    ELSE LET f == CHOOSE f \in fs : TRUE IN f.size + SizeOf(fs \ {f})

\* C7: a mergePdfs call reads no input beyond a total size of MAX_MERGE_SIZE,
\* and no merged PDF is made from input files whose total size is over the
\* limit.
C7_MergeLimit ==
    \A r \in 1..MaxRuns :
        runs[r].pc \in {"loop", "save", "done"} => SizeOf(Inputs(r)) <= MAX_MERGE_SIZE

----------------------------------------------------------------------------
(* Properties of the detectors *)

\* the entries of FORMAT_SIGNATURES one of whose signatures stands at its
\* offset within the first 16 bytes of the file
Matching(bytes) ==
    {f \in 1..Len(FORMAT_SIGNATURES) :
        \E s \in 1..Len(FORMAT_SIGNATURES[f].offsets) :
            LET offset == FORMAT_SIGNATURES[f].offsets[s][1]
                sig == FORMAT_SIGNATURES[f].offsets[s][2]
            IN  /\ offset + Len(sig) <= 16
                /\ offset + Len(sig) <= Len(bytes)
                /\ \A i \in 1..Len(sig) : bytes[offset + i] = sig[i]}

\* C8: detectFormat resolves with the first entry of FORMAT_SIGNATURES that
\* has a signature at its offset within the first 16 bytes of the file, and
\* with null when there is none, whatever the file's name and declared type.
C8_MagicBytesOnly ==
    fmt # Pending =>
        LET hits == Matching(sniffFile.bytes)
        IN  IF hits = {}
            THEN fmt = Null
            ELSE LET f == CHOOSE f \in hits : \A g \in hits : f <= g
                 IN  fmt = [mime |-> FORMAT_SIGNATURES[f].mime,
                            ext |-> FORMAT_SIGNATURES[f].ext]

\* a HEIC file that is named .png and declared image/png, longer than the 16
\* bytes read, was detected as HEIC
C8_Witness ==
    /\ fmt = [mime |-> "image/heic", ext |-> "heic"]
    /\ sniffFile.name = <<"a", ".", "p", "n", "g">>
    /\ sniffFile.type = "image/png"
    /\ Len(sniffFile.bytes) > 16

\* the files that carry neither a name nor a declared type
Anonymous == {f \in SniffFiles : f.name = <<>> /\ f.type = ""}

\* C9: a type with an entry in ROUTES that detect reports for a file is a type
\* detect can report from leading bytes alone: it reports it for some file
\* that has neither a name nor a declared type.
C9_MagicCoversRoutes ==
    (route # Pending /\ route.mime \in ROUTES) =>
        \E f \in Anonymous : detect(f) = route

----------------------------------------------------------------------------
(* Properties of the video converter page *)

\* C13: in the video converter at most one convertVideo call is in flight.
C13_OneOperation == Cardinality(conversions) <= 1

\* C14: a download button on the file item offers the conversion of the file
\* the item displays, the sizes shown with it are those of that file, and a
\* conversion error shown on the item is the error of that file's conversion.
C14_ResultOfDisplayed ==
    /\ vidItem.actions = "download" =>
          /\ vidItem.blobOf = vidItem.file
          /\ vidItem.metaOf = vidItem.file
    /\ vidItem.errorOf # 0 => vidItem.errorOf = vidItem.file

\* C16: no video longer than MAX_DURATION is passed to convertVideo.
C16_NoLongVideo == \A f \in passed : f.duration <= MAX_DURATION

----------------------------------------------------------------------------
(* Properties of the pending files *)

Stores == {c \in 1..MaxPendCalls : pendCalls[c].op = "store"}
Loads == {c \in 1..MaxPendCalls : pendCalls[c].op = "load"}
Returned(c) == pendCalls[c].pc = "done"

\* load call l started after store call s returned, no other
\* loadPendingFiles call started between the start of s and the start of l,
\* and every other storeFiles call had returned before s started
FirstAfter(l, s) ==
    /\ Returned(s)
    /\ pendCalls[s].end < pendCalls[l].start
    /\ \A l2 \in Loads \ {l} :
          ~(pendCalls[s].start < pendCalls[l2].start /\ pendCalls[l2].start < pendCalls[l].start)
    /\ \A s2 \in Stores \ {s} : Returned(s2) /\ pendCalls[s2].end < pendCalls[s].start

\* C19: the first loadPendingFiles call after a storeFiles call returns the
\* files of that call, complete and in order, and no two loadPendingFiles
\* calls return the files of the same storeFiles call: the later ones return
\* null.
C19_ClearedAfterReading ==
    /\ \A l \in Loads : \A s \in Stores :
          (Returned(l) /\ FirstAfter(l, s)) => pendCalls[l].files = pendCalls[s].files
    /\ \A l \in Loads : \A l2 \in Loads \ {l} :
          (Returned(l) /\ Returned(l2) /\ pendCalls[l].files # <<>>)
              => pendCalls[l2].files # pendCalls[l].files

----------------------------------------------------------------------------
(* Properties of the video to GIF engine *)

\* the loop index of the frame written after the j-th, or the number of
\* captured frames when the j-th is the last
NextWritten(j) == IF j < Len(gifWritten) THEN gifWritten[j + 1].i ELSE gifI

\* C20: a captured frame nearly identical to the last kept frame is skipped
\* and its display time goes to the frame written before it: when the GIF is
\* finished, the delay of every written frame is one frame interval for
\* itself and one for every frame skipped after it.
C20_SkippedTimeOnPrevious ==
    gifPc = "done" =>
        \A j \in 1..Len(gifWritten) :
            gifWritten[j].delay = frameDelay(gifClip.fps) * (NextWritten(j) - gifWritten[j].i)

----------------------------------------------------------------------------
(* Properties of the PalmDOC decompression *)

\* a record of literal bytes 0x09..0x7F and bytes 0xC0..0xFF only
SpaceCoded(data) ==
    \A k \in 1..Len(data) : (data[k] >= 9 /\ data[k] <= 127) \/ (data[k] >= 192 /\ data[k] <= 255)

\* its text: a byte 0xC0..0xFF is a space and the byte XOR 0x80
RECURSIVE SpaceDecoded(_)
SpaceDecoded(data) ==
    IF data = <<>> THEN <<>>
    ELSE (IF Head(data) >= 192 THEN <<32, Xor80(Head(data))>> ELSE <<Head(data)>>)
             \o SpaceDecoded(Tail(data))

\* C21: an input byte in 0xC0..0xFF decodes to a space followed by the byte
\* XOR 0x80: a record of literal bytes and such bytes decodes to the literals
\* and, for each such byte, these two bytes.
C21_SpacePlusChar ==
    SpaceCoded(palmData) => palmOut = SpaceDecoded(palmData)

----------------------------------------------------------------------------
(* Properties of the RTF parser *)

\* the string without its designated group
WithoutGroup ==
    SubSeq(rtfString, 1, rtfGroup[1] - 1) \o SubSeq(rtfString, rtfGroup[2] + 1, Len(rtfString))

\* C22: parseRtf skips a designated group entirely and skipping ends at the
\* group's matching closing brace: no x, which the documents have inside the
\* group only, is in the text, and the text is the text of the document
\* without the group, so what follows the group is emitted.
C22_GroupSkipped ==
    rtfGroup # <<0, 0>> =>
        /\ \A k \in 1..Len(rtfText) : rtfText[k] # 120
        /\ rtfText = parseRtf(WithoutGroup)

============================================================================
